---- MODULE Spec2Model ----
(***************************************************************************)
(* Researcher identity reconciliation: OrcidClient.match_researcher and    *)
(* search_researchers (external_data/data_collector.py), the retry         *)
(* decorator and APIRateLimiter of the same file, the batch job            *)
(* match_researchers_with_orcid (main.py) and the orcid_mappings table of  *)
(* PermanentDatabase (database/permanent_db.py); further                   *)
(* OrcidClient.get_researcher_info and PubMedCollector.search_articles     *)
(* request by request, and search_google_scholar, validate_orcid and the   *)
(* lookups by identifier of app.py.                                        *)
(*                                                                         *)
(* Text is a sequence of one-character strings, so that lower(), "in" and  *)
(* split() are computed and not assumed.  Confidences are integers in      *)
(* hundredths (0.7 is 70).  Python's None and an empty str/list are both   *)
(* the empty sequence where the code only tests their truthiness.          *)
(***************************************************************************)
EXTENDS Integers, Sequences, FiniteSets, TLC

VARIABLES
    \* one call of OrcidClient.match_researcher
    ref,            \* its arguments: [name, keywords, institution]
    response,       \* what the registry answers to the search request
    query,          \* the terms of the search query, to be joined by AND
    mpc,            \* "ready" -> "searched" -> "done"
    researchers,    \* the local list `researchers`
    best,           \* the return value: <<>> is None, <<r>> is the dict r
    mraised         \* whether the call ended by raising to its caller

VARIABLES
    \* one call of a function decorated with @retry
    r_func,         \* the decorated function
    r_tries,        \* the decorator's `tries`
    r_delay,        \* the decorator's `delay`, in seconds
    r_backoff,      \* the decorator's `backoff`
    mtries,         \* the local countdown
    mdelay,         \* the local delay, in seconds
    r_pc,           \* "loop", "except", "returned", "raised"
    r_http,         \* outcome of each invocation's request, in order
    r_slept,        \* the arguments of time.sleep, in order
    r_value,        \* what the wrapper returned
    r_error         \* the invocation whose exception the wrapper raised

VARIABLES
    \* one APIRateLimiter and the sessions calling wait() on it
    now,            \* time.time(), in ticks
    period,         \* self.period, in ticks
    last_call_time, \* self.last_call_time
    w_pc,           \* per session: "idle", "read", "sleep", "stamp"
    w_current,      \* per session: the local current_time
    w_wake,         \* per session: when its time.sleep may end
    w_returns       \* the returned calls, in order: [session, t]

mvars == <<ref, response, query, mpc, researchers, best, mraised>>
rvars == <<r_func, r_tries, r_delay, r_backoff, mtries, mdelay, r_pc, r_http, r_slept, r_value, r_error>>
wvars == <<now, period, last_call_time, w_pc, w_current, w_wake, w_returns>>

VARIABLES
    \* the permanent database and one run of match_researchers_with_orcid
    orcid_linked,   \* datasets.orcid_linked, by dataset id
    orcid_mappings, \* the rows of orcid_mappings, in insertion order
    bpc,            \* "idle", "datasets", "rows"
    b_datasets,     \* the datasets the run has still to visit
    b_snapshot,     \* orcid_linked as get_dataset_info read it for the run
    b_row,          \* the row of the current dataset to handle next
    last_op         \* the operation that ran last, with its arguments

bvars == <<orcid_linked, orcid_mappings, bpc, b_datasets, b_snapshot, b_row, last_op>>

VARIABLES
    \* one call of OrcidClient.search_researchers or get_researcher_info
    s_op,           \* "search" or "info"
    s_max_results,  \* the max_results argument of the search
    s_response,     \* what the registry answers to the search request
    s_detail,       \* what the registry answers to a direct detail request
    s_pc,           \* "ready", "loop", "returned"
    s_i,            \* the entry of "result" the loop handles next
    s_results,      \* the local list `results`
    s_info,         \* what get_researcher_info returned: <<>> is None
    s_calls         \* rate_limiter.wait() calls and HTTP requests, in order

svars == <<s_op, s_max_results, s_response, s_detail, s_pc, s_i, s_results, s_info, s_calls>>

VARIABLES
    \* one call of PubMedCollector.search_articles through @retry()
    p_max_results,  \* the max_results argument, sent as retmax
    p_mtries,       \* the wrapper's countdown
    p_pc,           \* "esearch", "efetch", "except", "returned", "raised"
    p_id_list,      \* the local id_list of the current attempt
    p_calls,        \* waits, requests and sleeps, in order
    p_out           \* the return value: "pending", "[]" or "articles"

pvars == <<p_max_results, p_mtries, p_pc, p_id_list, p_calls, p_out>>

VARIABLES
    \* one call of the app's search_google_scholar
    g_orcid,        \* whether a non-blank orcid was passed
    g_max_attempts, \* the max_attempts argument
    g_pc,           \* "direct", "direct_profile", "name", "name_profile", "returned"
    g_attempt,      \* the loop variable `attempt`
    g_calls,        \* requests and sleeps, in order
    g_pages,        \* what each request was answered with, in order
    g_result        \* the record returned

gvars == <<g_orcid, g_max_attempts, g_pc, g_attempt, g_calls, g_pages, g_result>>

VARIABLES
    \* the lookups by identifier the application has performed
    l_log           \* per lookup: [path, orcid, outcome]

VARIABLES
    \* one registry date given to both _format_date implementations
    d_date,         \* the date object
    d_done,         \* the implementations that have been applied
    d_client,       \* what OrcidClient._format_date returned
    d_app           \* what app._format_date returned

dvars == <<d_date, d_done, d_client, d_app>>

VARIABLES
    \* the authors of one article of PubMedCollector
    a_xml,          \* the Author elements of the AuthorList
    a_pc,           \* "start", "parsed" or "framed"
    a_authors,      \* article_data['authors']
    a_authors_str   \* article['authors_str']

avars == <<a_xml, a_pc, a_authors, a_authors_str>>

VARIABLES
    \* one call of GoogleScholarCollector.search_articles under retry()
    c_max_results,  \* the argument
    c_mtries,       \* the attempts left
    c_pc,           \* "loop", "break", "except", "returned" or "raised"
    c_page,         \* the loop variable
    c_articles,     \* the articles collected in this attempt
    c_requests,     \* the page requests sent so far
    c_out           \* the list returned, in a one-element sequence

cvars == <<c_max_results, c_mtries, c_pc, c_page, c_articles, c_requests, c_out>>

VARIABLES
    \* move_to_permanent_db called by two UI sessions
    v_staging,      \* forskare_cleanup: rowid -> the row, in a sequence of
                    \* length 0 or 1
    v_permanent,    \* the rows of forskare_permanent in insertion order
    v_exists,       \* forskare_permanent has been created
    v_pc,           \* per session: the position in move_to_permanent_db
    v_id,           \* per session: researcher_id
    v_row,          \* per session: researcher_df
    v_ret           \* per session: what the call returned

vvars == <<v_staging, v_permanent, v_exists, v_pc, v_id, v_row, v_ret>>

VARIABLES
    \* approve_and_move_to_permanent between the two dataset databases
    k_sdatasets,    \* the datasets table of the staging database
    k_stables,      \* the data tables of the staging database, by name
    k_pdatasets,    \* the datasets table of the permanent database
    k_ptables,      \* the data tables of the permanent database, by name
    k_approvals,    \* the number of approve_and_move_to_permanent calls
    k_last          \* the last call: its dataset_id, permanent_id and result

kvars == <<k_sdatasets, k_stables, k_pdatasets, k_ptables, k_approvals, k_last>>

\* the formatting, parsing and storing helpers
zvars == <<dvars, avars, cvars, vvars, kvars>>

\* the adapters of the external sources
xvars == <<svars, pvars, gvars, l_log, zvars>>

oldvars == <<mvars, rvars, wvars, bvars, svars, pvars, gvars, l_log>>

vars == <<mvars, rvars, wvars, bvars, xvars>>

\* what the steps of one component leave alone
notMatch == <<rvars, wvars, bvars, xvars>>
notRetry == <<mvars, wvars, bvars, xvars>>
notLimiter == <<mvars, rvars, bvars, xvars>>
notBatch == <<rvars, wvars, xvars>>
notSearch == <<mvars, rvars, wvars, bvars, pvars, gvars, l_log, zvars>>
notPubMed == <<mvars, rvars, wvars, bvars, svars, gvars, l_log, zvars>>
notScholar == <<mvars, rvars, wvars, bvars, svars, pvars, l_log, zvars>>
notLookup == <<mvars, rvars, wvars, bvars, svars, pvars, gvars, zvars>>
notDate == <<oldvars, avars, cvars, vvars, kvars>>
notAuthors == <<oldvars, dvars, cvars, vvars, kvars>>
notCollector == <<oldvars, dvars, avars, vvars, kvars>>
notMove == <<oldvars, dvars, avars, cvars, kvars>>
notApprove == <<oldvars, dvars, avars, cvars, vvars>>

-----------------------------------------------------------------------------
(* Bounds *)

MaxHits == 3        \* entries of the registry's "result" array
MaxTries == 3       \* largest `tries` a decorator is given
MaxDelay == 2       \* largest `delay` a decorator is given
MaxBackoff == 2     \* largest `backoff` a decorator is given
MaxPeriod == 3      \* longest limiter period, in ticks
MaxTime == 9        \* the clock stops here
MaxCalls == 3       \* wait() calls that return on one limiter
NumDatasets == 2    \* rows of the datasets table
MaxMappings == 2    \* direct register_orcid_mapping calls are made below this size
MaxEntries == 6     \* entries of "result" in a search_researchers response
MaxIds == 2         \* largest max_results a PubMed search is given
MaxAttempts == 3    \* largest max_attempts a scholar search is given
MaxLookups == 2     \* lookups by identifier in one run of the application

-----------------------------------------------------------------------------
(* Text *)

UpperCase == <<"J", "S", "M", "I", "P", "Q">>
LowerCase == <<"j", "s", "m", "i", "p", "q">>

\* str.lower() on one character
LowerChar(c) ==
    IF \E i \in DOMAIN UpperCase : UpperCase[i] = c
    THEN LowerCase[CHOOSE i \in DOMAIN UpperCase : UpperCase[i] = c]
    ELSE c

\* str.lower()
Lower(s) == [i \in DOMAIN s |-> LowerChar(s[i])]

\* Python's `sub in s` on str
Contains(sub, s) ==
    \E i \in 0..(Len(s) - Len(sub)) : SubSeq(s, i + 1, i + Len(sub)) = sub

\* Python's `x in list`
InList(x, l) == \E i \in DOMAIN l : l[i] = x

\* str.split(): the maximal runs of non-blank characters, in order
RECURSIVE SplitFrom(_, _, _)
SplitFrom(s, i, word) ==
    IF i > Len(s)
    THEN IF word = <<>> THEN <<>> ELSE <<word>>
    ELSE IF s[i] = " "
         THEN (IF word = <<>> THEN <<>> ELSE <<word>>) \o SplitFrom(s, i + 1, <<>>)
         ELSE SplitFrom(s, i + 1, Append(word, s[i]))

Split(s) == SplitFrom(s, 1, <<>>)

Min(a, b) == IF a < b THEN a ELSE b

-----------------------------------------------------------------------------
(* The inputs of one match_researcher call *)

NameJS   == <<"J", "s">>
NameA    == <<"a">>
KwP      == <<"P">>
KwLowP   == <<"p">>
KwLowQ   == <<"q">>
InstMi   == <<"M", "i">>

\* name, keywords, institution as the caller passes them
RefPool ==
    [name : {NameJS, NameA, <<>>},
     keywords : {<<>>, <<KwP>>, <<KwLowP, KwLowQ, KwLowP>>,
                 <<KwLowP, KwLowQ, KwLowP, KwLowQ>>},
     institution : {<<>>, InstMi}]

\* One entry of the search response's "result" array together with what the
\* registry answers to the detail request for it: id is whether
\* "orcid-identifier" carries a path, fetch the outcome of the detail request
\* ("ok", "error" for a failed request, "empty" for an empty JSON body).
Hit(id, fetch, name, keywords, institution) ==
    [id |-> id, fetch |-> fetch, name |-> name, keywords |-> keywords,
     institution |-> institution]

HitPool ==
    { Hit(TRUE, "ok", <<"j", "S">>, <<<<"P">>, <<"Q">>>>,
          <<"x", "m", "i", " ", "m", "i">>),
      Hit(TRUE, "ok", <<"j", "S">>, <<>>, <<>>),
      Hit(TRUE, "ok", <<"j", "s", "x">>, <<<<"p">>>>, <<"m", "i">>),
      Hit(TRUE, "ok", <<"b">>, <<>>, <<"m", "i">>),
      Hit(TRUE, "ok", <<"b">>, <<<<"p">>>>, <<"x">>),
      Hit(TRUE, "ok", <<>>, <<>>, <<>>),
      Hit(FALSE, "ok", <<"j", "S">>, <<>>, <<>>),
      Hit(TRUE, "error", <<"j", "S">>, <<>>, <<>>),
      Hit(TRUE, "empty", <<"j", "S">>, <<>>, <<>>) }

HitSeqs == UNION { [1..n -> HitPool] : n \in 0..MaxHits }

\* status "error": the search request raised (network error, non-2xx status,
\* unparseable body)
Responses ==
    {[status |-> "error", result |-> <<>>]}
        \cup {[status |-> "ok", result |-> h] : h \in HitSeqs}

\* The identifier the registry reports for the i-th entry of its response
OrcidAt(i) == i

-----------------------------------------------------------------------------
(* OrcidClient.get_researcher_info and search_researchers *)

NoConfidence == -1      \* the dict has no "match_confidence" key

\* get_researcher_info(orcid): None (<<>>) when the request raised or the body
\* was empty, else the flat record.  "name", "keywords" and "institution" are
\* keys of the dict only when non-empty; match_researcher reads them with
\* .get(key, "") / a guarded `in`, so an absent key reads as the empty value.
get_researcher_info(hit, orcid) ==
    IF hit.fetch # "ok"
    THEN <<>>
    ELSE <<[orcid_id |-> orcid, orcid |-> 0, name |-> hit.name,
            keywords |-> hit.keywords, institution |-> hit.institution,
            match_confidence |-> NoConfidence]>>

\* the summary profile built from the search entry alone (max_results > 5)
SummaryProfile(hit, orcid) ==
    [orcid_id |-> orcid, orcid |-> orcid, name |-> hit.name,
     keywords |-> <<>>, institution |-> hit.institution,
     match_confidence |-> NoConfidence]

RECURSIVE CollectHits(_, _, _)
CollectHits(result, i, max_results) ==
    IF i > Len(result)
    THEN <<>>
    ELSE LET hit  == result[i]
             info == get_researcher_info(hit, OrcidAt(i))
             this == IF ~hit.id
                     THEN <<>>
                     ELSE IF max_results > 5
                          THEN <<SummaryProfile(hit, OrcidAt(i))>>
                          ELSE IF info = <<>>
                               THEN <<>>
                               ELSE <<[info[1] EXCEPT !.orcid_id = OrcidAt(i),
                                                      !.orcid = OrcidAt(i)]>>
         IN  this \o CollectHits(result, i + 1, max_results)

\* search_researchers(query, max_results): every exception is caught inside
\* the function and answered with the empty list
search_researchers(resp, max_results) ==
    IF resp.status = "error"
    THEN <<>>
    ELSE CollectHits(resp.result, 1, max_results)

-----------------------------------------------------------------------------
(* OrcidClient.match_researcher *)

MatchMaxResults == 5
DefaultConfidence == 70

\* query_parts: the quoted name, at most three keywords, the institution
BuildQuery(r) ==
    <<r.name>>
        \o SubSeq(r.keywords, 1, Min(3, Len(r.keywords)))
        \o (IF r.institution # <<>> THEN <<r.institution>> ELSE <<>>)

NameScore_NoExactBonus(name, r) ==
    LET full_name == Lower(r.name)
    IN  IF full_name # <<>> /\ Contains(Lower(name), full_name) THEN 50 ELSE 0
NameScore(name, r) ==
    LET full_name == Lower(r.name)
    IN  IF full_name # <<>> /\ Contains(Lower(name), full_name)
        THEN 50 + (IF Lower(name) = full_name THEN 30 ELSE 0)
        ELSE 0

KeywordScore(keywords, r) ==
    IF keywords # <<>> /\ r.keywords # <<>>
    THEN LET researcher_keywords == [i \in DOMAIN r.keywords |-> Lower(r.keywords[i])]
         IN  10 * Cardinality({i \in DOMAIN keywords :
                                  InList(Lower(keywords[i]), researcher_keywords)})
    ELSE 0

InstitutionScore(institution, r) ==
    IF institution # <<>> /\ r.institution # <<>>
    THEN LET tokens == Split(r.institution)
             affiliations == [i \in DOMAIN tokens |-> Lower(tokens[i])]
         IN  20 * Cardinality({i \in DOMAIN affiliations :
                                  Contains(Lower(institution), affiliations[i])})
    ELSE 0

\* round(min(confidence, 1.0), 2): every contribution is a whole number of
\* tenths, so rounding to hundredths leaves the capped sum
Clamp_NoCap(confidence) == confidence
Clamp(confidence) == Min(confidence, 100)

Score(r0, r) ==
    Clamp(NameScore(r0.name, r) + KeywordScore(r0.keywords, r)
              + InstitutionScore(r0.institution, r))

\* the key of the sort: x.get("match_confidence", 0)
SortKey(r) == IF r.match_confidence = NoConfidence THEN 0 ELSE r.match_confidence

\* list.sort(key=..., reverse=True): descending, equal keys keep their order
InsertSorted_Unstable(sorted, x) ==
    LET k == Cardinality({i \in DOMAIN sorted : SortKey(sorted[i]) > SortKey(x)})
    IN  SubSeq(sorted, 1, k) \o <<x>> \o SubSeq(sorted, k + 1, Len(sorted))
InsertSorted(sorted, x) ==
    LET k == Cardinality({i \in DOMAIN sorted : SortKey(sorted[i]) >= SortKey(x)})
    IN  SubSeq(sorted, 1, k) \o <<x>> \o SubSeq(sorted, k + 1, Len(sorted))

RECURSIVE SortPrefix(_, _)
SortPrefix(l, n) ==
    IF n = 0 THEN <<>> ELSE InsertSorted(SortPrefix(l, n - 1), l[n])

SortByConfidence(l) == SortPrefix(l, Len(l))

\* the scoring loop and the sort, entered only for more than one candidate
ScoreAll_ScoresOne(r0, rs) ==
    SortByConfidence([i \in DOMAIN rs |->
                         [rs[i] EXCEPT !.match_confidence = Score(r0, rs[i])]])
ScoreAll(r0, rs) ==
    IF Len(rs) > 1
    THEN SortByConfidence([i \in DOMAIN rs |->
                              [rs[i] EXCEPT !.match_confidence = Score(r0, rs[i])]])
    ELSE rs

\* the default for a first entry that was not scored
WithDefault_ZeroIsUnset(rs) ==
    IF rs[1].match_confidence \in {NoConfidence, 0}
    THEN [rs EXCEPT ![1].match_confidence = DefaultConfidence]
    ELSE rs
WithDefault(rs) ==
    IF rs[1].match_confidence = NoConfidence
    THEN [rs EXCEPT ![1].match_confidence = DefaultConfidence]
    ELSE rs

Rank(r0, rs) == WithDefault(ScoreAll(r0, rs))

\* the whole call, as its callers see it: None or the best match
match_researcher(r0, resp) ==
    LET rs == search_researchers(resp, MatchMaxResults)
    IN  IF rs = <<>> THEN <<>> ELSE <<Rank(r0, rs)[1]>>

MatchInit ==
    /\ ref \in RefPool
    /\ response \in Responses
    /\ query = <<>>
    /\ mpc = "ready"
    /\ researchers = <<>>
    /\ best = <<>>
    /\ mraised = FALSE

\* the query is sent and the list comes back; an empty list ends the call
MatchSearch ==
    /\ mpc = "ready"
    /\ researchers' = search_researchers(response, MatchMaxResults)
    /\ mpc' = IF researchers' = <<>> THEN "done" ELSE "searched"
    /\ query' = BuildQuery(ref)
    /\ best' = <<>>
    /\ mraised' = FALSE      \* except Exception: return None
    /\ UNCHANGED <<ref, response>>
    /\ UNCHANGED notMatch

\* the candidates are scored and sorted and the first is returned
MatchRank ==
    /\ mpc = "searched"
    /\ researchers' = Rank(ref, researchers)
    /\ best' = <<researchers'[1]>>
    /\ mpc' = "done"
    /\ mraised' = FALSE      \* except Exception: return None
    /\ UNCHANGED <<ref, response, query>>
    /\ UNCHANGED notMatch

-----------------------------------------------------------------------------
(* The retry decorator *)

DefaultTries == 3
DefaultDelay == 1
DefaultBackoff == 2

\* "operation" raises what its request raises; the two registry operations
\* catch every exception in their own body
RetryFuncs == {"operation", "search_researchers", "get_researcher_info"}

CatchesAll(f) == f \in {"search_researchers", "get_researcher_info"}

\* the outcomes of the request one invocation sends: an answer with
\* results, a well-formed answer without any, a failure (network error,
\* non-2xx status, unparseable body)
HttpOutcomes == {"ok", "empty", "fail"}

\* what one invocation of the decorated function ends with: "raise", or the
\* value it returns
Invoke(f, http) ==
    CASE http = "ok" -> "value"
      [] http = "empty" ->
            IF f = "search_researchers" THEN "[]"
            ELSE IF f = "get_researcher_info" THEN "None"
            ELSE "value"
      [] http = "fail" ->
            IF ~CatchesAll(f) THEN "raise"
            ELSE IF f = "search_researchers" THEN "[]" ELSE "None"

\* `if mtries == 0: raise`
Exhausted_OneEarly(m) == m <= 1
Exhausted(m) == m = 0

RetryInit ==
    /\ r_func \in RetryFuncs
    /\ r_tries \in 0..MaxTries
    /\ r_delay \in 1..MaxDelay
    /\ r_backoff \in 1..MaxBackoff
    /\ mtries = r_tries
    /\ mdelay = r_delay
    /\ r_pc = "loop"
    /\ r_http = <<>>
    /\ r_slept = <<>>
    /\ r_value = "pending"
    /\ r_error = 0

\* `while mtries > 0: try: return func(...)`
RetryAttempt ==
    /\ r_pc = "loop"
    /\ mtries > 0
    /\ \E http \in HttpOutcomes :
          /\ r_http' = Append(r_http, http)
          /\ IF Invoke(r_func, http) = "raise"
             THEN /\ r_pc' = "except"
                  /\ r_value' = r_value
             ELSE /\ r_pc' = "returned"
                  /\ r_value' = Invoke(r_func, http)
    /\ UNCHANGED <<r_func, r_tries, r_delay, r_backoff, mtries, mdelay, r_slept, r_error>>
    /\ UNCHANGED notRetry

\* the except clause: sleep, count down, lengthen the delay, raise at zero
RetryExcept ==
    /\ r_pc = "except"
    /\ r_slept' = Append(r_slept, mdelay)
    /\ mtries' = mtries - 1
    /\ mdelay' = mdelay * r_backoff
    /\ IF Exhausted(mtries')
       THEN r_pc' = "raised" /\ r_error' = Len(r_http)
       ELSE r_pc' = "loop" /\ r_error' = r_error
    /\ UNCHANGED <<r_func, r_tries, r_delay, r_backoff, r_http, r_value>>
    /\ UNCHANGED notRetry

\* `return func(...)` after the loop, reached only when tries <= 0
RetryFallThrough ==
    /\ r_pc = "loop"
    /\ mtries <= 0
    /\ \E http \in HttpOutcomes :
          /\ r_http' = Append(r_http, http)
          /\ IF Invoke(r_func, http) = "raise"
             THEN /\ r_pc' = "raised"
                  /\ r_error' = Len(r_http')
                  /\ r_value' = r_value
             ELSE /\ r_pc' = "returned"
                  /\ r_error' = r_error
                  /\ r_value' = Invoke(r_func, http)
    /\ UNCHANGED <<r_func, r_tries, r_delay, r_backoff, mtries, mdelay, r_slept>>
    /\ UNCHANGED notRetry

-----------------------------------------------------------------------------
(* APIRateLimiter *)

Sessions == {1, 2}

\* time_to_wait = self.period - time_since_last_call
time_to_wait_Swapped(p, since) == since - p
time_to_wait(p, since) == p - since

\* The clock has run for longer than any period when a limiter is made, as
\* time.time() counts from 1970 and last_call_time starts at 0.
LimiterInit ==
    /\ period \in 1..MaxPeriod
    /\ now = MaxPeriod
    /\ last_call_time = 0
    /\ w_pc = [s \in Sessions |-> "idle"]
    /\ w_current = [s \in Sessions |-> 0]
    /\ w_wake = [s \in Sessions |-> 0]
    /\ w_returns = <<>>

Tick ==
    /\ now < MaxTime
    /\ now' = now + 1
    /\ UNCHANGED <<period, last_call_time, w_pc, w_current, w_wake, w_returns>>
    /\ UNCHANGED notLimiter

\* current_time = time.time()
WaitRead(s) ==
    /\ w_pc[s] = "idle"
    /\ Len(w_returns) < MaxCalls
    /\ w_current' = [w_current EXCEPT ![s] = now]
    /\ w_pc' = [w_pc EXCEPT ![s] = "read"]
    /\ UNCHANGED <<now, period, last_call_time, w_wake, w_returns>>
    /\ UNCHANGED notLimiter

\* the comparison, and the start of time.sleep when the call came too soon
WaitCheck(s) ==
    /\ w_pc[s] = "read"
    /\ LET time_since_last_call == w_current[s] - last_call_time
       IN  IF time_since_last_call < period
           THEN /\ w_wake' = [w_wake EXCEPT
                                 ![s] = now + time_to_wait(period, time_since_last_call)]
                /\ w_pc' = [w_pc EXCEPT ![s] = "sleep"]
           ELSE /\ w_wake' = w_wake
                /\ w_pc' = [w_pc EXCEPT ![s] = "stamp"]
    /\ UNCHANGED <<now, period, last_call_time, w_current, w_returns>>
    /\ UNCHANGED notLimiter

\* time.sleep returns once at least the requested time has passed
WaitWake(s) ==
    /\ w_pc[s] = "sleep"
    /\ now >= w_wake[s]
    /\ w_pc' = [w_pc EXCEPT ![s] = "stamp"]
    /\ UNCHANGED <<now, period, last_call_time, w_current, w_wake, w_returns>>
    /\ UNCHANGED notLimiter

\* self.last_call_time = time.time(), and the call returns
WaitStamp(s) ==
    /\ w_pc[s] = "stamp"
    /\ last_call_time' = now
    /\ w_returns' = Append(w_returns, [session |-> s, t |-> now])
    /\ w_pc' = [w_pc EXCEPT ![s] = "idle"]
    /\ UNCHANGED <<now, period, w_current, w_wake>>
    /\ UNCHANGED notLimiter

-----------------------------------------------------------------------------
(* PermanentDatabase.orcid_mappings and match_researchers_with_orcid *)

DatasetIds == 1..NumDatasets

\* the rows every dataset table holds: name, keywords, institution columns;
\* the second row has no name
Table ==
    <<[name |-> NameJS, keywords |-> <<>>, institution |-> <<>>],
      [name |-> <<>>, keywords |-> <<>>, institution |-> <<>>],
      [name |-> NameA, keywords |-> <<KwP>>, institution |-> InstMi]>>

\* record_id: str(row['id']), or the dataframe index
RecordId(k) == k

\* what the registry may answer to the search for one row
BatchResponses ==
    { [status |-> "error", result |-> <<>>],
      [status |-> "ok", result |-> <<>>],
      [status |-> "ok", result |-> <<Hit(TRUE, "ok", <<"b">>, <<>>, <<"m", "i">>),
                                     Hit(TRUE, "ok", <<"j", "S">>, <<>>, <<>>)>>] }

\* get_dataset_info(): ORDER BY approved_date DESC, the newest dataset first
DatasetsNewestFirst == [i \in 1..NumDatasets |-> NumDatasets + 1 - i]

NoOp == [op |-> "none", dataset_id |-> 0, record_id |-> 0, orcid |-> 0,
         confidence |-> 0, ok |-> FALSE]

Op(name, d, r, o, c, ok) ==
    [op |-> name, dataset_id |-> d, record_id |-> r, orcid |-> o,
     confidence |-> c, ok |-> ok]

\* the INSERT of register_orcid_mapping
InsertMapping(m, d, r, o, c) ==
    Append(m, [dataset_id |-> d, record_id |-> r, orcid |-> o,
               match_confidence |-> c])

\* get_orcid_mappings(dataset_id, orcid); 0 stands for an argument left None.
\* Without a filter the rows come by match_date, newest first.
Reverse(l) == [i \in DOMAIN l |-> l[Len(l) + 1 - i]]

get_orcid_mappings(dataset_id, orcid) ==
    IF dataset_id # 0 /\ orcid # 0
    THEN SelectSeq(orcid_mappings,
                   LAMBDA m : m.dataset_id = dataset_id /\ m.orcid = orcid)
    ELSE IF dataset_id # 0
         THEN SelectSeq(orcid_mappings, LAMBDA m : m.dataset_id = dataset_id)
         ELSE IF orcid # 0
              THEN SelectSeq(orcid_mappings, LAMBDA m : m.orcid = orcid)
              ELSE Reverse(orcid_mappings)

\* what the batch registers for the result of one match: nothing for None or
\* a result without 'orcid', else the identifier with
\* researcher.get('match_confidence', 0.5)
ToRegister_Unguarded(b) ==
    IF b # <<>>
    THEN <<[orcid |-> b[1].orcid, confidence |-> b[1].match_confidence]>>
    ELSE <<[orcid |-> 0, confidence |-> 50]>>
ToRegister(b) ==
    IF b # <<>> /\ b[1].orcid # 0
    THEN <<[orcid |-> b[1].orcid,
            confidence |-> IF b[1].match_confidence = NoConfidence
                           THEN 50 ELSE b[1].match_confidence]>>
    ELSE <<>>

\* the arguments the direct calls are made with
DirectWrites ==
    { [record_id |-> RecordId(1), orcid |-> 1, confidence |-> 70],
      [record_id |-> RecordId(1), orcid |-> 2, confidence |-> 90] }

BatchInit ==
    /\ orcid_linked = [d \in DatasetIds |-> FALSE]
    /\ orcid_mappings = <<>>
    /\ bpc = "idle"
    /\ b_datasets = <<>>
    /\ b_snapshot = [d \in DatasetIds |-> FALSE]
    /\ b_row = 0
    /\ last_op = NoOp

\* a direct call of register_orcid_mapping; ok is whether the transaction
\* committed (False is returned, and nothing written, when sqlite raised)
RegisterOrcidMapping ==
    /\ Len(orcid_mappings) < MaxMappings
    /\ \E d \in DatasetIds, w \in DirectWrites, ok \in BOOLEAN :
        LET r == w.record_id
            o == w.orcid
            c == w.confidence
        IN
          /\ IF ok
             THEN /\ orcid_mappings' = InsertMapping(orcid_mappings, d, r, o, c)
                  /\ orcid_linked' = [orcid_linked EXCEPT ![d] = TRUE]
             ELSE UNCHANGED <<orcid_mappings, orcid_linked>>
          /\ last_op' = Op("register", d, r, o, c, ok)
    /\ UNCHANGED <<bpc, b_datasets, b_snapshot, b_row>>
    /\ UNCHANGED <<mvars, notBatch>>

\* match_researchers_with_orcid reads the datasets
BatchStart ==
    /\ bpc = "idle"
    /\ b_datasets' = DatasetsNewestFirst
    /\ b_snapshot' = orcid_linked
    /\ b_row' = 0
    /\ bpc' = "datasets"
    /\ last_op' = Op("start", 0, 0, 0, 0, FALSE)
    /\ UNCHANGED <<orcid_linked, orcid_mappings>>
    /\ UNCHANGED <<mvars, notBatch>>

\* `if dataset.get('orcid_linked')`, on the rows get_dataset_info returned
AlreadyLinked_Never(snapshot, d) == FALSE
AlreadyLinked(snapshot, d) == snapshot[d]

\* the head of the dataset loop: a dataset that was linked is passed over
BatchDataset ==
    /\ bpc = "datasets"
    /\ b_datasets # <<>>
    /\ IF AlreadyLinked(b_snapshot, Head(b_datasets))
       THEN /\ b_datasets' = Tail(b_datasets)
            /\ UNCHANGED <<bpc, b_row>>
       ELSE /\ bpc' = "rows"
            /\ b_row' = 1
            /\ UNCHANGED b_datasets
    /\ last_op' = Op("dataset", Head(b_datasets), 0, 0, 0, FALSE)
    /\ UNCHANGED <<orcid_linked, orcid_mappings, b_snapshot>>
    /\ UNCHANGED <<mvars, notBatch>>

\* one row: skipped without a name, else matched and, on a match, registered
BatchRow ==
    /\ bpc = "rows"
    /\ LET d == Head(b_datasets)
           row == Table[b_row]
       IN  IF row.name = <<>>
           THEN /\ last_op' = Op("skip_row", d, RecordId(b_row), 0, 0, FALSE)
                /\ UNCHANGED <<orcid_linked, orcid_mappings, mvars>>
           ELSE \E resp \in BatchResponses, ok \in BOOLEAN :
                  /\ ref' = row
                  /\ response' = resp
                  /\ query' = BuildQuery(row)
                  /\ researchers' =
                        LET rs == search_researchers(resp, MatchMaxResults)
                        IN  IF rs = <<>> THEN rs ELSE Rank(row, rs)
                  /\ best' = match_researcher(row, resp)
                  /\ mpc' = "done"
                  /\ mraised' = FALSE
                  /\ LET reg == ToRegister(best')
                     IN  /\ IF reg # <<>> /\ ok
                            THEN /\ orcid_mappings' =
                                       InsertMapping(orcid_mappings, d, RecordId(b_row),
                                                     reg[1].orcid, reg[1].confidence)
                                 /\ orcid_linked' = [orcid_linked EXCEPT ![d] = TRUE]
                            ELSE UNCHANGED <<orcid_linked, orcid_mappings>>
                         /\ last_op' =
                               IF reg # <<>>
                               THEN Op("match_row", d, RecordId(b_row), reg[1].orcid,
                                       reg[1].confidence, ok)
                               ELSE Op("match_row", d, RecordId(b_row), 0, 0, FALSE)
    /\ IF b_row < Len(Table)
       THEN /\ b_row' = b_row + 1
            /\ UNCHANGED <<bpc, b_datasets>>
       ELSE /\ b_row' = 0
            /\ bpc' = "datasets"
            /\ b_datasets' = Tail(b_datasets)
    /\ UNCHANGED b_snapshot
    /\ UNCHANGED notBatch

\* the dataset loop is through
BatchEnd ==
    /\ bpc = "datasets"
    /\ b_datasets = <<>>
    /\ bpc' = "idle"
    /\ last_op' = Op("end", 0, 0, 0, 0, FALSE)
    /\ UNCHANGED <<orcid_linked, orcid_mappings, b_datasets, b_snapshot, b_row>>
    /\ UNCHANGED <<mvars, notBatch>>

\* the run ends before its loops are through: the function has no try
\* block, so an exception of the database layer or the end of the process
\* stops it where it is; what it has registered stays
BatchInterrupt ==
    /\ bpc \in {"datasets", "rows"}
    /\ bpc' = "idle"
    /\ b_datasets' = <<>>
    /\ b_row' = 0
    /\ last_op' = Op("interrupt", 0, 0, 0, 0, FALSE)
    /\ UNCHANGED <<orcid_linked, orcid_mappings, b_snapshot>>
    /\ UNCHANGED <<mvars, notBatch>>

-----------------------------------------------------------------------------
(* OrcidClient.search_researchers and get_researcher_info, request by       *)
(* request, on registry answers whose nested objects may be absent or null *)

\* a key of a JSON object: it has a value, it is missing, or it is null
Presence == {"present", "absent", "null"}

\* `x or {}`, `x or []`: null reads as the empty container
OrEmpty(p) == IF p = "null" THEN "absent" ELSE p

\* container.get(key, {}) where the container itself may be empty
Get(container, p) == IF container = "present" THEN p ELSE "absent"

\* the optional containers of a detail response
Bodies ==
    [person : Presence, name : Presence, keywords : Presence,
     activities : Presence, employments : Presence, services : Presence]

FullBody ==
    [person |-> "present", name |-> "present", keywords |-> "present",
     activities |-> "present", employments |-> "present",
     services |-> "present"]

\* the parsing of get_researcher_info: <<>> is the None of the except
\* clause, reached when `services_container.get` is called on a null
ParseProfile(body, include_details) ==
    LET person      == OrEmpty(body.person)
        name        == OrEmpty(Get(person, body.name))
        keywords    == OrEmpty(Get(person, body.keywords))
        activities  == OrEmpty(body.activities)
        employments == OrEmpty(Get(activities, body.employments))
        services    == Get(activities, body.services)
    IN  IF include_details /\ services = "null"
        THEN <<>>
        ELSE <<[name |-> IF name = "present" THEN "Ada L" ELSE "",
                keywords |-> IF keywords = "present" THEN <<"p">> ELSE <<>>,
                institution |-> IF employments = "present" THEN "Mi" ELSE "",
                stub |-> FALSE]>>

\* get_researcher_info(orcid, include_details) after its request: None for
\* a failed request and for an empty body
FetchProfile(fetch, body, include_details) ==
    IF fetch # "ok" THEN <<>> ELSE ParseProfile(body, include_details)

\* one entry of "result": ident is the state of its "orcid-identifier"
\* object, fetch and body what the registry answers to its detail request
Entry(ident, fetch, body) == [ident |-> ident, fetch |-> fetch, body |-> body]

EntryPool ==
    { Entry("present", "ok", FullBody),
      Entry("present", "ok", [FullBody EXCEPT !.person = "null"]),
      Entry("present", "error", FullBody),
      Entry("absent", "ok", FullBody),
      Entry("null", "ok", FullBody) }

\* "result" arrays: one entry repeated, with at most one entry that differs
EntrySeqs ==
    { [i \in 1..n |-> IF i = k THEN alt ELSE base] :
          n \in 0..MaxEntries, k \in 0..MaxEntries,
          base \in EntryPool, alt \in EntryPool }

SearchResponses ==
    {[status |-> "error", result |-> <<>>]}
        \cup {[status |-> "ok", result |-> h] : h \in EntrySeqs}

\* the max_results the callers pass: 1 (app.py), 5 (match_researcher),
\* the default 10, and the first value above the threshold
MaxResultsArgs == {1, 5, 6, 10}

StubThreshold == 5

\* `if max_results > 5`: build the profile from the search entry alone
Summarises_Never(max_results) == FALSE
Summarises(max_results) == max_results > StubThreshold

NoResponse == [status |-> "ok", result |-> <<>>]

\* the "rows" parameter caps the number of entries the registry returns
SearchInit ==
    /\ s_pc = "ready"
    /\ s_i = 0
    /\ s_results = <<>>
    /\ s_info = <<>>
    /\ s_calls = <<>>
    /\ \/ /\ s_op = "search"
          /\ s_max_results \in MaxResultsArgs
          /\ s_response \in SearchResponses
          /\ Len(s_response.result) <= s_max_results
          /\ s_detail = [fetch |-> "ok", body |-> FullBody, include_details |-> FALSE]
       \/ /\ s_op = "info"
          /\ s_max_results = 0
          /\ s_response = NoResponse
          /\ s_detail \in [fetch : {"ok", "error", "empty"}, body : Bodies,
                           include_details : BOOLEAN]

\* self.rate_limiter.wait(), requests.get(url + "/search"),
\* raise_for_status(), response.json(); a failure ends in `return []`
SearchSend ==
    /\ s_op = "search"
    /\ s_pc = "ready"
    /\ s_calls' = s_calls \o <<"wait", "search">>
    /\ s_results' = <<>>
    /\ IF s_response.status = "error"
       THEN s_pc' = "returned" /\ s_i' = s_i
       ELSE s_pc' = "loop" /\ s_i' = 1
    /\ UNCHANGED <<s_op, s_max_results, s_response, s_detail, s_info>>
    /\ UNCHANGED notSearch

\* one pass of `for result in data.get("result", [])`
SearchEntry ==
    /\ s_pc = "loop"
    /\ s_i <= Len(s_response.result)
    /\ LET e    == s_response.result[s_i]
           info == FetchProfile(e.fetch, e.body, FALSE)
       IN  CASE e.ident = "null" ->
                   \* None.get("path") raises; except Exception: return []
                   /\ s_results' = <<>>
                   /\ s_pc' = "returned"
                   /\ UNCHANGED <<s_i, s_calls>>
             [] e.ident = "absent" ->
                   /\ s_i' = s_i + 1
                   /\ UNCHANGED <<s_results, s_pc, s_calls>>
             [] e.ident = "present" /\ Summarises(s_max_results) ->
                   /\ s_results' = Append(s_results,
                          [orcid |-> s_i, name |-> "Ada L", keywords |-> <<>>,
                           institution |-> "", stub |-> TRUE])
                   /\ s_i' = s_i + 1
                   /\ UNCHANGED <<s_pc, s_calls>>
             [] e.ident = "present" /\ ~Summarises(s_max_results) ->
                   /\ s_calls' = s_calls \o <<"wait", "detail">>
                   /\ s_results' =
                          IF info = <<>>
                          THEN s_results
                          ELSE Append(s_results,
                                   [orcid |-> s_i, name |-> info[1].name,
                                    keywords |-> info[1].keywords,
                                    institution |-> info[1].institution,
                                    stub |-> FALSE])
                   /\ s_i' = s_i + 1
                   /\ UNCHANGED s_pc
    /\ UNCHANGED <<s_op, s_max_results, s_response, s_detail, s_info>>
    /\ UNCHANGED notSearch

\* `return results` after the loop
SearchReturn ==
    /\ s_pc = "loop"
    /\ s_i > Len(s_response.result)
    /\ s_pc' = "returned"
    /\ UNCHANGED <<s_op, s_max_results, s_response, s_detail, s_i, s_results, s_info, s_calls>>
    /\ UNCHANGED notSearch

\* a direct call of get_researcher_info(orcid, include_details)
InfoCall ==
    /\ s_op = "info"
    /\ s_pc = "ready"
    /\ s_calls' = s_calls \o <<"wait", "detail">>
    /\ s_info' = FetchProfile(s_detail.fetch, s_detail.body, s_detail.include_details)
    /\ s_pc' = "returned"
    /\ UNCHANGED <<s_op, s_max_results, s_response, s_detail, s_i, s_results>>
    /\ UNCHANGED notSearch

-----------------------------------------------------------------------------
(* PubMedCollector.search_articles, request by request, through @retry() *)

\* an event of p_calls
Ev(kind, ids) == [kind |-> kind, ids |-> ids]

\* the idlist of an esearch answer: at most retmax ids
IdLists(max_results) == {[i \in 1..n |-> i] : n \in 0..max_results}

\* `if not id_list`
NoIds_Never(id_list) == FALSE
NoIds(id_list) == id_list = <<>>

PubMedInit ==
    /\ p_max_results \in 1..MaxIds
    /\ p_mtries = DefaultTries
    /\ p_pc = "esearch"
    /\ p_id_list = <<>>
    /\ p_calls = <<>>
    /\ p_out = "pending"

\* step 1: wait(), the esearch request, raise_for_status(), json(), and the
\* early return on an empty id list; an exception is logged and re-raised
PubMedSearch ==
    /\ p_pc = "esearch"
    /\ \/ /\ p_calls' = p_calls \o <<Ev("wait", 0), Ev("esearch", -1)>>
          /\ p_pc' = "except"
          /\ UNCHANGED <<p_id_list, p_out>>
       \/ \E id_list \in IdLists(p_max_results) :
             /\ p_calls' = p_calls \o <<Ev("wait", 0), Ev("esearch", Len(id_list))>>
             /\ p_id_list' = id_list
             /\ IF NoIds(id_list)
                THEN p_pc' = "returned" /\ p_out' = "[]"
                ELSE p_pc' = "efetch" /\ p_out' = p_out
    /\ UNCHANGED <<p_max_results, p_mtries>>
    /\ UNCHANGED notPubMed

\* step 2: wait(), the efetch request for the ids, raise_for_status() and
\* the parsing of the XML
PubMedFetch ==
    /\ p_pc = "efetch"
    /\ p_calls' = p_calls \o <<Ev("wait", 0), Ev("efetch", Len(p_id_list))>>
    /\ \/ p_pc' = "except" /\ p_out' = p_out
       \/ p_pc' = "returned" /\ p_out' = "articles"
    /\ UNCHANGED <<p_max_results, p_mtries, p_id_list>>
    /\ UNCHANGED notPubMed

\* the wrapper's except clause: sleep, count down, raise at zero, else
\* call search_articles again
PubMedRetry ==
    /\ p_pc = "except"
    /\ p_calls' = Append(p_calls, Ev("sleep", 0))
    /\ p_mtries' = p_mtries - 1
    /\ p_pc' = IF Exhausted(p_mtries') THEN "raised" ELSE "esearch"
    /\ p_id_list' = <<>>
    /\ UNCHANGED <<p_max_results, p_out>>
    /\ UNCHANGED notPubMed

-----------------------------------------------------------------------------
(* search_google_scholar of app.py, request by request *)

\* what a search request ends with: a page with or without a profile link,
\* status 429, another status, or an exception of requests.get
SearchPages == {"links", "nolinks", "429", "other", "exception"}

\* what a profile request ends with: a page with all statistics, a page
\* with none, a page whose statistics int() cannot read, another status, or
\* an exception of requests.get
ProfilePages == {"full", "bare", "garbled", "other", "exception"}

\* the record of the two return statements after a failure
Stub_KeepsCounts(tag) ==
    [search_method |-> tag, profile_url |-> "", citations |-> 12,
     h_index |-> 3, i10_index |-> 1, interests |-> <<>>, coauthors |-> <<>>]
Stub(tag) ==
    [search_method |-> tag, profile_url |-> "", citations |-> 0,
     h_index |-> 0, i10_index |-> 0, interests |-> <<>>, coauthors |-> <<>>]

\* the record built from a profile page
Profile_OneTag(page, tag) ==
    [search_method |-> "name_search", profile_url |-> "/citations?user=u",
     citations |-> 0, h_index |-> 0, i10_index |-> 0,
     interests |-> <<>>, coauthors |-> <<>>]
Profile(page, tag) ==
    IF page = "full"
    THEN [search_method |-> tag, profile_url |-> "/citations?user=u",
          citations |-> 12, h_index |-> 3, i10_index |-> 1,
          interests |-> <<"ai">>, coauthors |-> <<"c">>]
    ELSE [search_method |-> tag, profile_url |-> "/citations?user=u",
          citations |-> 0, h_index |-> 0, i10_index |-> 0,
          interests |-> <<>>, coauthors |-> <<>>]

\* time.sleep after an attempt that returned nothing
AttemptSleep_Flat(status429, attempt) == 1
AttemptSleep(status429, attempt) == IF status429 THEN 5 * (attempt + 1) ELSE 1

NoResult == Stub("pending")

\* an answer of the scraped site: the request it answers, what came back,
\* the value of `attempt` and the seconds slept before the next request
Page(request, page, attempt, slept) ==
    [request |-> request, page |-> page, attempt |-> attempt, slept |-> slept]

ScholarInit ==
    /\ g_orcid \in BOOLEAN
    /\ g_max_attempts \in 1..MaxAttempts
    /\ g_pc = IF g_orcid THEN "direct" ELSE "name"
    /\ g_attempt = 0
    /\ g_calls = <<>>
    /\ g_pages = <<>>
    /\ g_result = NoResult

\* the direct search with name and orcid
ScholarDirect ==
    /\ g_pc = "direct"
    /\ g_calls' = Append(g_calls, Ev("get", 0))
    /\ \E page \in SearchPages :
          /\ g_pages' = Append(g_pages, Page("direct", page, g_attempt, 0))
          /\ CASE page = "exception" ->
                   g_pc' = "returned" /\ g_result' = Stub("error")
               [] page = "links" ->
                   g_pc' = "direct_profile" /\ g_result' = g_result
               [] OTHER ->
                   g_pc' = "name" /\ g_result' = g_result
    /\ UNCHANGED <<g_orcid, g_max_attempts, g_attempt>>
    /\ UNCHANGED notScholar

\* the profile the direct search found
ScholarDirectProfile ==
    /\ g_pc = "direct_profile"
    /\ g_calls' = Append(g_calls, Ev("get", 0))
    /\ \E page \in ProfilePages :
          /\ g_pages' = Append(g_pages, Page("direct_profile", page, g_attempt, 0))
          /\ CASE page \in {"exception", "garbled"} ->
                   g_pc' = "returned" /\ g_result' = Stub("error")
               [] page \in {"full", "bare"} ->
                   g_pc' = "returned" /\ g_result' = Profile(page, "direct_orcid")
               [] OTHER ->
                   g_pc' = "name" /\ g_result' = g_result
    /\ UNCHANGED <<g_orcid, g_max_attempts, g_attempt>>
    /\ UNCHANGED notScholar

\* one attempt of the search by name, up to the profile request
ScholarNameSearch ==
    /\ g_pc = "name"
    /\ g_attempt < g_max_attempts
    /\ \E page \in SearchPages :
          CASE page = "exception" ->
                   /\ g_calls' = Append(g_calls, Ev("get", 0))
                   /\ g_pages' = Append(g_pages, Page("name", page, g_attempt, 0))
                   /\ g_pc' = "returned" /\ g_result' = Stub("error")
                   /\ g_attempt' = g_attempt
            [] page = "links" ->
                   /\ g_calls' = Append(g_calls, Ev("get", 0))
                   /\ g_pages' = Append(g_pages, Page("name", page, g_attempt, 0))
                   /\ g_pc' = "name_profile" /\ g_result' = g_result
                   /\ g_attempt' = g_attempt
            [] OTHER ->
                   /\ g_calls' = g_calls \o
                          <<Ev("get", 0),
                            Ev("sleep", AttemptSleep(page = "429", g_attempt))>>
                   /\ g_pages' = Append(g_pages,
                          Page("name", page, g_attempt,
                               AttemptSleep(page = "429", g_attempt)))
                   /\ g_pc' = "name" /\ g_result' = g_result
                   /\ g_attempt' = g_attempt + 1
    /\ UNCHANGED <<g_orcid, g_max_attempts>>
    /\ UNCHANGED notScholar

\* the profile the search by name found; after another status the attempt
\* ends with the short sleep, the search response having had status 200
ScholarNameProfile ==
    /\ g_pc = "name_profile"
    /\ \E page \in ProfilePages :
          CASE page \in {"exception", "garbled"} ->
                   /\ g_calls' = Append(g_calls, Ev("get", 0))
                   /\ g_pages' = Append(g_pages, Page("name_profile", page, g_attempt, 0))
                   /\ g_pc' = "returned" /\ g_result' = Stub("error")
                   /\ g_attempt' = g_attempt
            [] page \in {"full", "bare"} ->
                   /\ g_calls' = Append(g_calls, Ev("get", 0))
                   /\ g_pages' = Append(g_pages, Page("name_profile", page, g_attempt, 0))
                   /\ g_pc' = "returned" /\ g_result' = Profile(page, "name_search")
                   /\ g_attempt' = g_attempt
            [] OTHER ->
                   /\ g_calls' = g_calls \o
                          <<Ev("get", 0), Ev("sleep", AttemptSleep(FALSE, g_attempt))>>
                   /\ g_pages' = Append(g_pages,
                          Page("name_profile", page, g_attempt,
                               AttemptSleep(FALSE, g_attempt)))
                   /\ g_pc' = "name" /\ g_result' = g_result
                   /\ g_attempt' = g_attempt + 1
    /\ UNCHANGED <<g_orcid, g_max_attempts>>
    /\ UNCHANGED notScholar

\* the return after the loop
ScholarNoResults ==
    /\ g_pc = "name"
    /\ g_attempt >= g_max_attempts
    /\ g_pc' = "returned"
    /\ g_result' = Stub("no_results")
    /\ UNCHANGED <<g_orcid, g_max_attempts, g_attempt, g_calls, g_pages>>
    /\ UNCHANGED notScholar

-----------------------------------------------------------------------------
(* The lookups by identifier: validate_orcid and its callers in app.py,    *)
(* move_to_permanent_db's profile fetch, collect_external_data of main.py  *)

Digits == {"0", "1", "2", "3", "4", "5", "6", "7", "8", "9"}

\* re.match(r'^\d{4}-\d{4}-\d{4}-\d{3}[\dX]$', orcid): `$` also matches
\* before a newline that ends the string
validate_orcid(orcid) ==
    LET body == IF Len(orcid) = 20 /\ orcid[20] = "\n"
                THEN SubSeq(orcid, 1, 19) ELSE orcid
    IN  /\ Len(body) = 19
        /\ \A i \in 1..19 :
              IF i \in {5, 10, 15} THEN body[i] = "-"
              ELSE IF i = 19 THEN body[i] \in Digits \cup {"X"}
              ELSE body[i] \in Digits

Group == <<"0", "0", "0", "2">>

\* the identifiers a lookup is asked for: well-formed ones, malformed ones,
\* and the empty value of a researcher without identifier
OrcidPool ==
    { Group \o <<"-">> \o Group \o <<"-">> \o Group \o <<"-">> \o Group,
      Group \o <<"-">> \o Group \o <<"-">> \o Group \o <<"-", "0", "0", "9", "X">>,
      Group \o <<"-">> \o Group \o <<"-">> \o Group \o <<"-">> \o Group \o <<"\n">>,
      Group \o <<"-">> \o Group \o <<"-">> \o Group,
      Group \o Group \o Group \o Group,
      <<"n", "/", "a">>,
      <<>> }

Lookup(path, orcid, outcome) == [path |-> path, orcid |-> orcid, outcome |-> outcome]

LookupInit == l_log = <<>>

\* fetch_and_update_orcid_profile(researcher_id, orcid)
FetchAndUpdateOrcidProfile ==
    /\ Len(l_log) < MaxLookups
    /\ \E orcid \in OrcidPool \ {<<>>} :
          l_log' = Append(l_log,
              Lookup("fetch_and_update", orcid,
                     IF ~validate_orcid(orcid) THEN "rejected" ELSE "registry"))
    /\ UNCHANGED notLookup

\* one line of the add-by-ORCID form: validated, then fetched
AddByOrcid ==
    /\ Len(l_log) < MaxLookups
    /\ \E orcid \in OrcidPool \ {<<>>} :
          l_log' = Append(l_log,
              Lookup("add_by_orcid", orcid,
                     IF validate_orcid(orcid) THEN "registry" ELSE "rejected"))
    /\ UNCHANGED notLookup

\* move_to_permanent_db, `if orcid:`: the profile is copied from the
\* workspace when it is there, and fetched from the registry when not
MoveProfileFetch ==
    /\ Len(l_log) < MaxLookups
    /\ \E orcid \in OrcidPool, temp_profile_exists \in BOOLEAN :
          l_log' = Append(l_log,
              Lookup("move", orcid,
                     IF orcid = <<>> THEN "none"
                     ELSE IF temp_profile_exists THEN "copied"
                     ELSE "registry"))
    /\ UNCHANGED notLookup

\* collect_external_data(permanent_db_path, orcid): pubmed.search_by_orcid
CollectExternalData ==
    /\ Len(l_log) < MaxLookups
    /\ \E orcid \in OrcidPool :
          l_log' = Append(l_log,
              Lookup("collect", orcid,
                     IF orcid = <<>> THEN "none" ELSE "pubmed"))
    /\ UNCHANGED notLookup

-----------------------------------------------------------------------------
(* OrcidClient._format_date and _format_date of app.py *)

\* a key of a date object: missing, null, {}, {"value": null} or
\* {"value": v}
FieldStates == {"absent", "null", "empty", "novalue", "value"}

\* the date objects of a registry answer: null, or an object with any of
\* "year", "month", "day"
DateObjs ==
    [null : {TRUE}, year : {"absent"}, month : {"absent"}, day : {"absent"}]
        \cup [null : {FALSE}, year : FieldStates, month : FieldStates,
              day : FieldStates]

\* the values the registry sends
ValueOf(key) ==
    CASE key = "year" -> "2020" [] key = "month" -> "05" [] key = "day" -> "17"

\* a str is a sequence of pieces; None is <<>> and the str x is <<x>>
None == <<>>
Some(x) == <<x>>

\* date_obj.get(key, {}) or {}, then .get("value"): <<>> is a None
ClientValue(date, key) ==
    LET obj == IF date[key] \in {"absent", "null"} THEN "empty" ELSE date[key]
    IN  IF obj = "value" THEN <<ValueOf(key)>> ELSE <<>>

\* OrcidClient._format_date(date_obj)
OrcidClient_format_date(date) ==
    IF date.null \/ (date.year = "absent" /\ date.month = "absent" /\ date.day = "absent")
    THEN None
    ELSE LET year  == ClientValue(date, "year")
             month == ClientValue(date, "month")
             day   == ClientValue(date, "day")
         IN  IF year # <<>>
             THEN IF month # <<>> /\ day # <<>>
                  THEN Some(year \o <<"-">> \o month \o <<"-">> \o day)
                  ELSE IF month # <<>>
                       THEN Some(year \o <<"-">> \o month)
                       ELSE Some(year)
             ELSE None

\* date_obj.get(key, {}) when that is a dict, else date_obj.get(key), then
\* .get('value') when that is a dict
AppValue(date, key) ==
    LET isdict == date[key] # "null"
    IN  IF isdict /\ date[key] = "value" THEN <<ValueOf(key)>> ELSE <<>>

\* _format_date(date_obj) of app.py on a dict or None
app_format_date_EmptyStr(date) ==
    IF date.null
    THEN None
    ELSE LET year  == AppValue(date, "year")
             month == AppValue(date, "month")
             day   == AppValue(date, "day")
         IN  Some(IF year # <<>>
                  THEN year \o (IF month # <<>>
                                THEN <<"-">> \o month
                                         \o (IF day # <<>> THEN <<"-">> \o day ELSE <<>>)
                                ELSE <<>>)
                  ELSE <<>>)
app_format_date(date) ==
    IF date.null
    THEN None
    ELSE LET year  == AppValue(date, "year")
             month == AppValue(date, "month")
             day   == AppValue(date, "day")
             date_str ==
                 IF year # <<>>
                 THEN year \o (IF month # <<>>
                               THEN <<"-">> \o month
                                        \o (IF day # <<>> THEN <<"-">> \o day ELSE <<>>)
                               ELSE <<>>)
                 ELSE <<>>
         IN  IF date_str # <<>> THEN Some(date_str) ELSE None

DateInit ==
    /\ d_date \in DateObjs
    /\ d_done = {}
    /\ d_client = None
    /\ d_app = None

FormatClient ==
    /\ "client" \notin d_done
    /\ d_client' = OrcidClient_format_date(d_date)
    /\ d_done' = d_done \cup {"client"}
    /\ UNCHANGED <<d_date, d_app>>
    /\ UNCHANGED notDate

FormatApp ==
    /\ "app" \notin d_done
    /\ d_app' = app_format_date(d_date)
    /\ d_done' = d_done \cup {"app"}
    /\ UNCHANGED <<d_date, d_client>>
    /\ UNCHANGED notDate

-----------------------------------------------------------------------------
(* The authors of an article: PubMedCollector.search_articles and          *)
(* to_dataframe *)

MaxAuthors == 2

\* an Author element: LastName and ForeName, each there (<<name>>) or not
LastNames == {<<>>, <<"Hesse">>, <<"Berg">>}
ForeNames == {<<>>, <<"Daniel">>, <<"Eva">>}
AuthorElements == [LastName : LastNames, ForeName : ForeNames]

RECURSIVE SeqsUpTo(_, _)
SeqsUpTo(S, n) ==
    IF n = 0 THEN {<<>>}
    ELSE LET shorter == SeqsUpTo(S, n - 1)
         IN  shorter \cup {Append(q, x) : q \in {r \in shorter : Len(r) = n - 1}, x \in S}

AuthorLists == SeqsUpTo(AuthorElements, MaxAuthors)

\* sep.join(parts) as a sequence of pieces
RECURSIVE Join(_, _)
Join(sep, parts) ==
    IF parts = <<>> THEN <<>>
    ELSE IF Len(parts) = 1 THEN parts[1]
    ELSE parts[1] \o <<sep>> \o Join(sep, Tail(parts))

\* the author_name list of one Author element
author_name(author) ==
    (IF author.LastName # <<>> THEN <<author.LastName>> ELSE <<>>)
        \o (IF author.ForeName # <<>> THEN <<author.ForeName>> ELSE <<>>)

\* the loop over author_list.find_all('Author')
RECURSIVE Authors(_)
Authors(xml) ==
    IF xml = <<>> THEN <<>>
    ELSE LET name == author_name(xml[1])
         IN  (IF name # <<>> THEN <<Join(" ", name)>> ELSE <<>>)
                 \o Authors(Tail(xml))

AuthorsInit ==
    /\ a_xml \in AuthorLists
    /\ a_pc = "start"
    /\ a_authors = <<>>
    /\ a_authors_str = <<>>

\* the author part of the article loop of search_articles
ParseAuthors ==
    /\ a_pc = "start"
    /\ a_authors' = Authors(a_xml)
    /\ a_pc' = "parsed"
    /\ UNCHANGED <<a_xml, a_authors_str>>
    /\ UNCHANGED notAuthors

\* to_dataframe on the article
ToDataframe ==
    /\ a_pc = "parsed"
    /\ a_authors_str' = Join(", ", a_authors)
    /\ a_pc' = "framed"
    /\ UNCHANGED <<a_xml, a_authors>>
    /\ UNCHANGED notAuthors

-----------------------------------------------------------------------------
(* GoogleScholarCollector.search_articles, page by page *)

\* results per page
PageSize == 10

\* the max_results of a call
CollectorMaxResults == {0, 1, 10, 11, 20}

\* the number of results a page can hold
PageYields == {0, 3, 10}

\* pages = (max_results + 9) // 10
PagesFor(max_results) == (max_results + PageSize - 1) \div PageSize

\* the results of one page appended until max_results is reached
RECURSIVE AppendResults(_, _, _, _)
AppendResults(articles, page, n, max_results) ==
    LET appended == AppendResults(articles, page, n - 1, max_results)
    IN  IF n = 0 THEN articles
        ELSE IF Len(appended) >= max_results /\ Len(appended) > Len(articles)
        THEN appended
        ELSE Append(appended, <<page, n>>)

\* articles[:max_results]
Slice(articles, max_results) ==
    SubSeq(articles, 1, IF Len(articles) < max_results THEN Len(articles) ELSE max_results)

\* a request of the log: the attempt, the page, the number of results on
\* it (-1: the request raised) and the articles collected before it
Request(left, page, yield, before) ==
    [attempt |-> DefaultTries - left + 1, page |-> page, yield |-> yield,
     before |-> before]

CollectorInit ==
    /\ c_max_results \in CollectorMaxResults
    /\ c_mtries = DefaultTries
    /\ c_pc = "loop"
    /\ c_page = 0
    /\ c_articles = <<>>
    /\ c_requests = <<>>
    /\ c_out = <<>>

\* one round of the page loop: the request answers with a page
CollectorPage ==
    /\ c_pc = "loop"
    /\ c_page < PagesFor(c_max_results)
    /\ \E yield \in PageYields :
          /\ c_requests' = Append(c_requests,
                                  Request(c_mtries, c_page, yield, Len(c_articles)))
          /\ c_articles' = AppendResults(c_articles, c_page, yield, c_max_results)
          /\ IF Len(c_articles') >= c_max_results
             THEN c_pc' = "break" /\ c_page' = c_page
             ELSE c_pc' = "loop" /\ c_page' = c_page + 1
    /\ UNCHANGED <<c_max_results, c_mtries, c_out>>
    /\ UNCHANGED notCollector

\* one round of the page loop: requests.get or raise_for_status raises
CollectorFail ==
    /\ c_pc = "loop"
    /\ c_page < PagesFor(c_max_results)
    /\ c_requests' = Append(c_requests,
                            Request(c_mtries, c_page, -1, Len(c_articles)))
    /\ c_pc' = "except"
    /\ UNCHANGED <<c_max_results, c_mtries, c_page, c_articles, c_out>>
    /\ UNCHANGED notCollector

\* after the loop: return articles[:max_results]
CollectorReturn ==
    /\ \/ c_pc = "break"
       \/ c_pc = "loop" /\ c_page >= PagesFor(c_max_results)
    /\ c_out' = <<Slice(c_articles, c_max_results)>>
    /\ c_pc' = "returned"
    /\ UNCHANGED <<c_max_results, c_mtries, c_page, c_articles, c_requests>>
    /\ UNCHANGED notCollector

\* the except branch of the retry wrapper: the call starts again or the
\* exception leaves the wrapper
CollectorRetry ==
    /\ c_pc = "except"
    /\ c_mtries' = c_mtries - 1
    /\ c_pc' = IF Exhausted(c_mtries') THEN "raised" ELSE "loop"
    /\ c_page' = 0
    /\ c_articles' = <<>>
    /\ UNCHANGED <<c_max_results, c_requests, c_out>>
    /\ UNCHANGED notCollector

-----------------------------------------------------------------------------
(* move_to_permanent_db of app.py, statement by statement, for two         *)
(* sessions on the same two databases *)

MaxRows == 2

RowIds == 1 .. MaxRows

\* a researcher row; orcid is <<>> when the column is null
Researchers ==
    [namn : {"", "Eva"}, efternamn : {"Berg"},
     orcid : {<<>>, <<"0000-0002-1825-0097">>}, institution : {"KI"}]

\* SELECT * FROM forskare_permanent WHERE orcid = '{orcid}' has rows
OrcidExists(permanent, orcid) ==
    \E i \in DOMAIN permanent : permanent[i].orcid = orcid

\* SELECT * FROM forskare_permanent WHERE namn = .. AND efternamn = ..
\* AND institution = .. has rows
NameExists(permanent, row) ==
    \E i \in DOMAIN permanent :
        /\ permanent[i].namn = row.namn
        /\ permanent[i].efternamn = row.efternamn
        /\ permanent[i].institution = row.institution

\* where the call goes after to_sql: on to the DELETE, or to the outer
\* except when to_sql raised
AfterInsert_AlwaysDelete(inserted) == "delete"
AfterInsert(inserted) == IF inserted THEN "delete" ELSE "done"

MoveInit ==
    /\ v_staging \in [RowIds -> {<<>>} \cup {<<r>> : r \in Researchers}]
    /\ v_exists \in BOOLEAN
    /\ v_permanent \in {<<>>} \cup {<<r>> : r \in Researchers}
    /\ v_permanent # <<>> => v_exists
    /\ v_pc = [s \in Sessions |-> "idle"]
    /\ v_id = [s \in Sessions |-> 1]
    /\ v_row = [s \in Sessions |-> <<>>]
    /\ v_ret = [s \in Sessions |-> "none"]

\* the SELECT of the staged row: it raises, finds nothing or finds the row
MoveSelect(s) ==
    /\ v_pc[s] = "idle"
    /\ \E id \in RowIds, raised \in BOOLEAN :
          /\ v_id' = [v_id EXCEPT ![s] = id]
          /\ IF raised
             THEN /\ v_ret' = [v_ret EXCEPT ![s] = "error"]
                  /\ v_pc' = [v_pc EXCEPT ![s] = "done"]
                  /\ UNCHANGED v_row
             ELSE IF v_staging[id] = <<>>
             THEN /\ v_ret' = [v_ret EXCEPT ![s] = "not_found"]
                  /\ v_pc' = [v_pc EXCEPT ![s] = "done"]
                  /\ UNCHANGED v_row
             ELSE /\ v_row' = [v_row EXCEPT ![s] = v_staging[id]]
                  /\ v_pc' = [v_pc EXCEPT ![s] = "check_orcid"]
                  /\ UNCHANGED v_ret
    /\ UNCHANGED <<v_staging, v_permanent, v_exists>>
    /\ UNCHANGED notMove

\* if orcid: the query for the ORCID; it raises and is passed over while
\* the table does not exist
MoveCheckOrcid(s) ==
    /\ v_pc[s] = "check_orcid"
    /\ IF /\ v_row[s][1].orcid # <<>>
          /\ v_exists
          /\ OrcidExists(v_permanent, v_row[s][1].orcid)
       THEN /\ v_ret' = [v_ret EXCEPT ![s] = "duplicate_orcid"]
            /\ v_pc' = [v_pc EXCEPT ![s] = "done"]
       ELSE /\ v_pc' = [v_pc EXCEPT ![s] = "check_name"]
            /\ UNCHANGED v_ret
    /\ UNCHANGED <<v_staging, v_permanent, v_exists, v_id, v_row>>
    /\ UNCHANGED notMove

\* if namn and efternamn: the query for name and institution
MoveCheckName(s) ==
    /\ v_pc[s] = "check_name"
    /\ IF /\ v_row[s][1].namn # "" /\ v_row[s][1].efternamn # ""
          /\ v_exists
          /\ NameExists(v_permanent, v_row[s][1])
       THEN /\ v_ret' = [v_ret EXCEPT ![s] = "duplicate_name"]
            /\ v_pc' = [v_pc EXCEPT ![s] = "done"]
       ELSE /\ v_pc' = [v_pc EXCEPT ![s] = "insert"]
            /\ UNCHANGED v_ret
    /\ UNCHANGED <<v_staging, v_permanent, v_exists, v_id, v_row>>
    /\ UNCHANGED notMove

\* CREATE TABLE IF NOT EXISTS and to_sql(if_exists="append"); a failure
\* goes to the outer except
MoveInsert(s) ==
    /\ v_pc[s] = "insert"
    /\ \E inserted \in BOOLEAN :
          /\ v_permanent' = IF inserted THEN Append(v_permanent, v_row[s][1])
                            ELSE v_permanent
          /\ v_exists' = (v_exists \/ inserted)
          /\ v_pc' = [v_pc EXCEPT ![s] = AfterInsert(inserted)]
          /\ v_ret' = [v_ret EXCEPT ![s] = IF inserted THEN "none" ELSE "error"]
    /\ UNCHANGED <<v_staging, v_id, v_row>>
    /\ UNCHANGED notMove

\* the profile copy, whose failures are only warned about and which
\* writes neither table, then DELETE FROM forskare_cleanup and commit; a
\* failure of the DELETE goes to the outer except
MoveDelete(s) ==
    /\ v_pc[s] = "delete"
    /\ \E deleted \in BOOLEAN :
          /\ v_staging' = IF deleted THEN [v_staging EXCEPT ![v_id[s]] = <<>>]
                          ELSE v_staging
          /\ v_ret' = [v_ret EXCEPT ![s] = IF deleted THEN "moved" ELSE "error"]
    /\ v_pc' = [v_pc EXCEPT ![s] = "done"]
    /\ UNCHANGED <<v_permanent, v_exists, v_id, v_row>>
    /\ UNCHANGED notMove

-----------------------------------------------------------------------------
(* approve_and_move_to_permanent of main.py with store_dataframe of the    *)
(* staging and the permanent database *)

MaxStaged == 3
MaxApprovals == 3

TableNames == {"forskare", "artiklar"}

\* the source column: <<>> is NULL
Sources == {<<>>, <<"schema_a">>, <<"schema_b">>}

\* UNIQUE(name, source): a NULL source never collides
Collides(datasets, name, source) ==
    /\ source # <<>>
    /\ \E i \in DOMAIN datasets :
          datasets[i].name = name /\ datasets[i].source = source

NoTables == [n \in TableNames |-> <<>>]

\* PermanentDatabase.store_dataframe: the INSERT into datasets, then
\* to_sql(if_exists='replace'), in one transaction; -1 after an exception
store_dataframe_TableFirst(datasets, tables, df, name, source, broken) ==
    IF Collides(datasets, name, source) \/ broken
    THEN [id |-> -1, datasets |-> datasets,
          tables |-> [tables EXCEPT ![name] = df]]
    ELSE [id |-> Len(datasets) + 1,
          datasets |-> Append(datasets, [name |-> name, source |-> source]),
          tables |-> [tables EXCEPT ![name] = df]]
store_dataframe(datasets, tables, df, name, source, broken) ==
    IF Collides(datasets, name, source) \/ broken
    THEN [id |-> -1, datasets |-> datasets, tables |-> tables]
    ELSE [id |-> Len(datasets) + 1,
          datasets |-> Append(datasets, [name |-> name, source |-> source]),
          tables |-> [tables EXCEPT ![name] = df]]

ApproveInit ==
    /\ k_sdatasets = <<>>
    /\ k_stables = NoTables
    /\ k_pdatasets = <<>>
    /\ k_ptables = NoTables
    /\ k_approvals = 0
    /\ k_last = [dataset_id |-> 0, permanent_id |-> 0, result |-> TRUE]

\* StagingDatabase.store_dataframe of a new import; the data of the n-th
\* import is <<n>>
StagingImport ==
    /\ Len(k_sdatasets) < MaxStaged
    /\ \E name \in TableNames, schema_name \in Sources :
          /\ ~Collides(k_sdatasets, name, schema_name)
          /\ k_sdatasets' = Append(k_sdatasets,
                 [name |-> name, source |-> schema_name, status |-> "imported"])
          /\ k_stables' = [k_stables EXCEPT ![name] = <<Len(k_sdatasets')>>]
    /\ UNCHANGED <<k_pdatasets, k_ptables, k_approvals, k_last>>
    /\ UNCHANGED notApprove

\* approve_and_move_to_permanent(dataset_id) when get_dataset_info finds
\* no such dataset
ApproveUnknown ==
    /\ k_approvals < MaxApprovals
    /\ \E dataset_id \in 1 .. MaxStaged :
          /\ dataset_id \notin DOMAIN k_sdatasets
          /\ k_last' = [dataset_id |-> dataset_id, permanent_id |-> 0,
                        result |-> FALSE]
    /\ k_approvals' = k_approvals + 1
    /\ UNCHANGED <<k_sdatasets, k_stables, k_pdatasets, k_ptables>>
    /\ UNCHANGED notApprove

\* approve_and_move_to_permanent(dataset_id) of a staged dataset; broken:
\* the permanent database raises for another reason than the constraint
Approve ==
    /\ k_approvals < MaxApprovals
    /\ \E dataset_id \in DOMAIN k_sdatasets, broken \in BOOLEAN :
          LET dataset == k_sdatasets[dataset_id]
              df      == k_stables[dataset.name]
              stored  == store_dataframe(k_pdatasets, k_ptables, df,
                                         dataset.name, dataset.source, broken)
          IN  /\ k_pdatasets' = stored.datasets
              /\ k_ptables' = stored.tables
              /\ k_sdatasets' =
                     IF stored.id > 0
                     THEN [k_sdatasets EXCEPT ![dataset_id].status = "approved"]
                     ELSE k_sdatasets
              /\ k_last' = [dataset_id |-> dataset_id, permanent_id |-> stored.id,
                            result |-> stored.id > 0]
    /\ k_approvals' = k_approvals + 1
    /\ UNCHANGED k_stables
    /\ UNCHANGED notApprove

-----------------------------------------------------------------------------
(* Specifications: each runs one component and leaves the others at rest *)

MatchAtRest ==
    /\ ref = [name |-> <<>>, keywords |-> <<>>, institution |-> <<>>]
    /\ response = [status |-> "ok", result |-> <<>>]
    /\ query = <<>>
    /\ mpc = "ready"
    /\ researchers = <<>>
    /\ best = <<>>
    /\ mraised = FALSE

RetryAtRest ==
    /\ r_func = "operation"
    /\ r_tries = DefaultTries
    /\ r_delay = DefaultDelay
    /\ r_backoff = DefaultBackoff
    /\ mtries = DefaultTries
    /\ mdelay = DefaultDelay
    /\ r_pc = "loop"
    /\ r_http = <<>>
    /\ r_slept = <<>>
    /\ r_value = "pending"
    /\ r_error = 0

LimiterAtRest ==
    /\ period = 1
    /\ now = MaxPeriod
    /\ last_call_time = 0
    /\ w_pc = [s \in Sessions |-> "idle"]
    /\ w_current = [s \in Sessions |-> 0]
    /\ w_wake = [s \in Sessions |-> 0]
    /\ w_returns = <<>>

SearchAtRest ==
    /\ s_op = "search"
    /\ s_max_results = 0
    /\ s_response = NoResponse
    /\ s_detail = [fetch |-> "ok", body |-> FullBody, include_details |-> FALSE]
    /\ s_pc = "ready"
    /\ s_i = 0
    /\ s_results = <<>>
    /\ s_info = <<>>
    /\ s_calls = <<>>

PubMedAtRest ==
    /\ p_max_results = 1
    /\ p_mtries = DefaultTries
    /\ p_pc = "esearch"
    /\ p_id_list = <<>>
    /\ p_calls = <<>>
    /\ p_out = "pending"

ScholarAtRest ==
    /\ g_orcid = FALSE
    /\ g_max_attempts = 1
    /\ g_pc = "name"
    /\ g_attempt = 0
    /\ g_calls = <<>>
    /\ g_pages = <<>>
    /\ g_result = NoResult

DateAtRest ==
    /\ d_date = [null |-> TRUE, year |-> "absent", month |-> "absent", day |-> "absent"]
    /\ d_done = {}
    /\ d_client = None
    /\ d_app = None

AuthorsAtRest ==
    /\ a_xml = <<>>
    /\ a_pc = "start"
    /\ a_authors = <<>>
    /\ a_authors_str = <<>>

CollectorAtRest ==
    /\ c_max_results = 0
    /\ c_mtries = DefaultTries
    /\ c_pc = "returned"
    /\ c_page = 0
    /\ c_articles = <<>>
    /\ c_requests = <<>>
    /\ c_out = <<>>

MoveAtRest ==
    /\ v_staging = [id \in RowIds |-> <<>>]
    /\ v_permanent = <<>>
    /\ v_exists = FALSE
    /\ v_pc = [s \in Sessions |-> "done"]
    /\ v_id = [s \in Sessions |-> 1]
    /\ v_row = [s \in Sessions |-> <<>>]
    /\ v_ret = [s \in Sessions |-> "none"]

HelpersAtRest ==
    DateAtRest /\ AuthorsAtRest /\ CollectorAtRest /\ MoveAtRest /\ ApproveInit

AdaptersAtRest ==
    SearchAtRest /\ PubMedAtRest /\ ScholarAtRest /\ LookupInit /\ HelpersAtRest

\* one match_researcher call on any reference and any registry answer
Init == MatchInit /\ RetryAtRest /\ LimiterAtRest /\ BatchInit /\ AdaptersAtRest

Next == MatchSearch \/ MatchRank

Spec == Init /\ [][Next]_vars

\* one call through the retry decorator
InitRetry == RetryInit /\ MatchAtRest /\ LimiterAtRest /\ BatchInit /\ AdaptersAtRest

NextRetry == RetryAttempt \/ RetryExcept \/ RetryFallThrough

SpecRetry == InitRetry /\ [][NextRetry]_vars

\* one session calling wait() again and again on one limiter
InitLimiter == LimiterInit /\ MatchAtRest /\ RetryAtRest /\ BatchInit /\ AdaptersAtRest

NextLimiter ==
    Tick \/ WaitRead(1) \/ WaitCheck(1) \/ WaitWake(1) \/ WaitStamp(1)

SpecLimiter == InitLimiter /\ [][NextLimiter]_vars

\* two sessions calling wait() on the limiter of the one cached client,
\* their steps interleaved in any order
NextShared ==
    \/ Tick
    \/ \E s \in Sessions : WaitRead(s)
    \/ \E s \in Sessions : WaitCheck(s)
    \/ \E s \in Sessions : WaitWake(s)
    \/ \E s \in Sessions : WaitStamp(s)

SpecShared == InitLimiter /\ [][NextShared]_vars

\* batch runs of match_researchers_with_orcid and direct calls of
\* register_orcid_mapping on one permanent database
InitBatch == BatchInit /\ MatchAtRest /\ RetryAtRest /\ LimiterAtRest /\ AdaptersAtRest

NextBatch ==
    BatchStart \/ BatchDataset \/ BatchRow \/ BatchEnd \/ RegisterOrcidMapping

SpecBatch == InitBatch /\ [][NextBatch]_vars

\* batch runs one after the other, any of which may end early
NextRuns ==
    BatchStart \/ BatchDataset \/ BatchRow \/ BatchEnd \/ BatchInterrupt

SpecRuns == InitBatch /\ [][NextRuns]_vars

\* one search_researchers or get_researcher_info call on any registry answer
InitSearch ==
    /\ SearchInit /\ PubMedAtRest /\ ScholarAtRest /\ LookupInit
    /\ MatchAtRest /\ RetryAtRest /\ LimiterAtRest /\ BatchInit /\ HelpersAtRest

NextSearch == SearchSend \/ SearchEntry \/ SearchReturn \/ InfoCall

SpecSearch == InitSearch /\ [][NextSearch]_vars

\* one PubMed search_articles call, retried as the decorator retries it
InitPubMed ==
    /\ PubMedInit /\ SearchAtRest /\ ScholarAtRest /\ LookupInit
    /\ MatchAtRest /\ RetryAtRest /\ LimiterAtRest /\ BatchInit /\ HelpersAtRest

NextPubMed == PubMedSearch \/ PubMedFetch \/ PubMedRetry

SpecPubMed == InitPubMed /\ [][NextPubMed]_vars

\* one search_google_scholar call, whatever the scraped site answers
InitScholar ==
    /\ ScholarInit /\ SearchAtRest /\ PubMedAtRest /\ LookupInit
    /\ MatchAtRest /\ RetryAtRest /\ LimiterAtRest /\ BatchInit /\ HelpersAtRest

NextScholar ==
    \/ ScholarDirect \/ ScholarDirectProfile
    \/ ScholarNameSearch \/ ScholarNameProfile \/ ScholarNoResults

SpecScholar == InitScholar /\ [][NextScholar]_vars

\* the lookups of one run of the application, in any order
InitLookup ==
    /\ LookupInit /\ SearchAtRest /\ PubMedAtRest /\ ScholarAtRest
    /\ MatchAtRest /\ RetryAtRest /\ LimiterAtRest /\ BatchInit /\ HelpersAtRest

NextLookup ==
    \/ FetchAndUpdateOrcidProfile \/ AddByOrcid
    \/ MoveProfileFetch \/ CollectExternalData

SpecLookup == InitLookup /\ [][NextLookup]_vars

CoreAtRest ==
    /\ MatchAtRest /\ RetryAtRest /\ LimiterAtRest /\ BatchInit
    /\ SearchAtRest /\ PubMedAtRest /\ ScholarAtRest /\ LookupInit

\* one date object formatted by both implementations
InitDate ==
    DateInit /\ CoreAtRest /\ AuthorsAtRest /\ CollectorAtRest /\ MoveAtRest /\ ApproveInit

NextDate == FormatClient \/ FormatApp

SpecDate == InitDate /\ [][NextDate]_vars

\* the authors of one article parsed and flattened
InitAuthors ==
    AuthorsInit /\ CoreAtRest /\ DateAtRest /\ CollectorAtRest /\ MoveAtRest /\ ApproveInit

NextAuthors == ParseAuthors \/ ToDataframe

SpecAuthors == InitAuthors /\ [][NextAuthors]_vars

\* one call of GoogleScholarCollector.search_articles
InitCollector ==
    CollectorInit /\ CoreAtRest /\ DateAtRest /\ AuthorsAtRest /\ MoveAtRest /\ ApproveInit

NextCollector == CollectorPage \/ CollectorFail \/ CollectorReturn \/ CollectorRetry

SpecCollector == InitCollector /\ [][NextCollector]_vars

\* two sessions, each moving one staged researcher
InitMove ==
    MoveInit /\ CoreAtRest /\ DateAtRest /\ AuthorsAtRest /\ CollectorAtRest /\ ApproveInit

NextMove ==
    \E s \in Sessions :
        \/ MoveSelect(s)
        \/ MoveCheckOrcid(s)
        \/ MoveCheckName(s)
        \/ MoveInsert(s)
        \/ MoveDelete(s)

SpecMove == InitMove /\ [][NextMove]_vars

\* imports into the staging database and approvals of staged datasets
InitApprove ==
    /\ ApproveInit /\ CoreAtRest
    /\ DateAtRest /\ AuthorsAtRest /\ CollectorAtRest /\ MoveAtRest

NextApprove == StagingImport \/ ApproveUnknown \/ Approve

SpecApprove == InitApprove /\ [][NextApprove]_vars

-----------------------------------------------------------------------------
(* Properties of match_researcher, checked under Spec *)

\* the entries of the response that become candidates: they carry an
\* identifier and their detail request succeeded
UsableHits(resp) ==
    IF resp.status = "error"
    THEN {}
    ELSE {i \in DOMAIN resp.result :
             resp.result[i].id /\ resp.result[i].fetch = "ok"}

\* the confidence the scoring rules of match_researcher give entry i
HitScore(i) ==
    Score(ref, [name |-> response.result[i].name,
                keywords |-> response.result[i].keywords,
                institution |-> response.result[i].institution])

SameName(a, b) == Lower(a) = Lower(b)

UpstreamFailed ==
    \/ response.status = "error"
    \/ \E i \in DOMAIN response.result :
          response.result[i].id /\ response.result[i].fetch = "error"

\* C2: when the registry search yields exactly one candidate, the call
\* returns that candidate with match_confidence 0.70, whatever scoring
\* would have given it.
C2_SingleHitDefault ==
    (mpc = "done" /\ Cardinality(UsableHits(response)) = 1) =>
        /\ Len(best) = 1
        /\ \A i \in UsableHits(response) :
              /\ best[1].orcid = OrcidAt(i)
              /\ best[1].name = response.result[i].name
        /\ best[1].match_confidence = 70

C2_Witness ==
    /\ mpc = "done"
    /\ Cardinality(UsableHits(response)) = 1
    /\ \E i \in UsableHits(response) : HitScore(i) = 100
    /\ best[1].match_confidence = 70

\* C3 as stated, for a reference that has a name: for any list of
\* candidates and a reference without keywords and institution, a candidate
\* whose name equals the reference name case-insensitively is given
\* confidence 0.80.
C3_ExactNameAlways80 ==
    (mpc = "done" /\ ref.keywords = <<>> /\ ref.institution = <<>>
         /\ ref.name # <<>>) =>
        \A i \in UsableHits(response) :
            SameName(response.result[i].name, ref.name) =>
                \E j \in DOMAIN researchers :
                    /\ researchers[j].orcid = OrcidAt(i)
                    /\ researchers[j].match_confidence = 80

\* C3 amended: when the search yields two or more candidates and the
\* reference has a non-empty name, no keywords and no institution, every
\* candidate whose name equals the reference name case-insensitively is
\* given confidence 0.80, at whatever position of the response it stands.
C3_ExactName80 ==
    (/\ mpc = "done"
     /\ ref.keywords = <<>> /\ ref.institution = <<>>
     /\ ref.name # <<>>
     /\ Cardinality(UsableHits(response)) >= 2) =>
        \A i \in UsableHits(response) :
            SameName(response.result[i].name, ref.name) =>
                \E j \in DOMAIN researchers :
                    /\ researchers[j].orcid = OrcidAt(i)
                    /\ researchers[j].match_confidence = 80

\* an exact name at the last position, behind a candidate that is no match
C3_Witness ==
    /\ mpc = "done"
    /\ ref.keywords = <<>> /\ ref.institution = <<>> /\ ref.name # <<>>
    /\ Len(response.result) = 3
    /\ UsableHits(response) = {1, 3}
    /\ ~SameName(response.result[1].name, ref.name)
    /\ SameName(response.result[3].name, ref.name)
    /\ response.result[3].name # ref.name
    /\ best[1].orcid = OrcidAt(3)
    /\ best[1].match_confidence = 80

\* C4: every match_confidence attached to a candidate lies in [0.0, 1.0].
C4_ConfidenceInUnitInterval ==
    /\ \A j \in DOMAIN researchers :
          researchers[j].match_confidence # NoConfidence =>
              researchers[j].match_confidence \in 0..100
    /\ \A j \in DOMAIN best : best[j].match_confidence \in 0..100

\* name 0.8, keywords 0.3 or more and institution 0.2 or more together
C4_Witness ==
    /\ mpc = "done"
    /\ \E j \in DOMAIN researchers :
          /\ NameScore(ref.name, researchers[j]) = 80
          /\ KeywordScore(ref.keywords, researchers[j]) >= 30
          /\ InstitutionScore(ref.institution, researchers[j]) >= 20
          /\ researchers[j].match_confidence = 100

\* C5: with two or more candidates the call returns a candidate of maximal
\* confidence, and among those of maximal confidence the one that stood
\* first in the search response.
C5_BestIsFirstMaximal ==
    (mpc = "done" /\ Cardinality(UsableHits(response)) >= 2) =>
        /\ Len(best) = 1
        /\ \E i \in UsableHits(response) :
              /\ best[1].orcid = OrcidAt(i)
              /\ best[1].match_confidence = HitScore(i)
              /\ \A k \in UsableHits(response) :
                    /\ HitScore(k) <= HitScore(i)
                    /\ HitScore(k) = HitScore(i) => i <= k

\* a tie for the best confidence between the second and third candidates
C5_Witness ==
    /\ mpc = "done"
    /\ UsableHits(response) = {1, 2, 3}
    /\ HitScore(1) < HitScore(2)
    /\ HitScore(2) = HitScore(3)
    /\ best[1].orcid = OrcidAt(2)

\* C6 as stated: when the search request or a detail request fails, the
\* call raises to its caller and does not return None.
C6_FailureSurfaces ==
    (mpc = "done" /\ UpstreamFailed) => (mraised /\ best = <<>>)

-----------------------------------------------------------------------------
(* Properties of the batch job and the mappings table, checked under SpecBatch *)

\* C1: for a reference whose registry search yields no candidate the match
\* is None, and the step of the batch that handled the row writes nothing
\* to orcid_mappings and does not mark the dataset as linked.
C1_NoCandidateNoWrite ==
    [][(last_op'.op = "match_row" /\ UsableHits(response') = {})
          => /\ best' = <<>>
             /\ orcid_mappings' = orcid_mappings
             /\ orcid_linked' = orcid_linked]_vars

\* a row with a name whose search came back well-formed and empty
C1_Witness ==
    /\ last_op.op = "match_row"
    /\ ref.name # <<>>
    /\ response = [status |-> "ok", result |-> <<>>]
    /\ best = <<>>
    /\ last_op.orcid = 0

\* the entry of the response a ranked candidate was built from
HitOf(e) == response.result[e.orcid_id]

\* the institution contribution as a single test: 0.2 when some
\* whitespace-delimited token of the candidate's institution, lower-cased,
\* contains the lower-cased query institution
InstitutionOnce(institution, h) ==
    IF /\ institution # <<>>
       /\ \E i \in DOMAIN Split(h.institution) :
             Contains(Lower(institution), Lower(Split(h.institution)[i]))
    THEN 20
    ELSE 0

\* C16 as stated: when two or more candidates are scored, each candidate's
\* confidence is the capped sum of its name and keyword contributions and
\* an institution contribution of 0.2 that is added at most once, however
\* many tokens of the candidate's institution match.
C16_InstitutionAtMostOnce ==
    (mpc = "done" /\ Len(researchers) > 1) =>
        \A k \in DOMAIN researchers :
            LET e == researchers[k]
                h == HitOf(e)
            IN  e.match_confidence =
                    Min(100, NameScore(ref.name, h)
                                + KeywordScore(ref.keywords, h)
                                + InstitutionOnce(ref.institution, h))

\* the first entry of the response that becomes a candidate
FirstUsable(resp) ==
    CHOOSE i \in UsableHits(resp) : \A j \in UsableHits(resp) : i <= j

AllScoreZero ==
    /\ Cardinality(UsableHits(response)) >= 2
    /\ \A i \in UsableHits(response) : HitScore(i) = 0

\* C17: when the registry returns two or more candidates and every one of
\* them scores 0, the call still returns a match: the first candidate in
\* registry order, with match_confidence 0.0.
C17_ZeroScoreStillReturned ==
    (mpc = "done" /\ AllScoreZero) =>
        /\ best # <<>>
        /\ best[1].orcid = OrcidAt(FirstUsable(response))
        /\ best[1].match_confidence = 0

C17_Witness ==
    /\ mpc = "done"
    /\ AllScoreZero
    /\ ref.name # <<>>
    /\ best # <<>>
    /\ best[1].match_confidence = 0
    /\ FirstUsable(response) > 1

\* the rows a query by dataset returns for one record
MappingsOf(d, r) ==
    SelectSeq(get_orcid_mappings(d, 0), LAMBDA m : m.record_id = r)

\* C10 as stated: after a mapping has been registered for a record, also
\* for the second time, the query returns exactly one mapping for that
\* record, and it carries the confidence written last.
C10_ReRegisterOverwrites ==
    (last_op.op = "register" /\ last_op.ok) =>
        LET rows == MappingsOf(last_op.dataset_id, last_op.record_id)
        IN  /\ Len(rows) = 1
            /\ rows[1].match_confidence = last_op.confidence

\* C11 as stated: after any sequence of register_orcid_mapping calls every
\* record of a dataset is associated with at most one identifier, the one
\* written last: all rows returned for the record carry the identifier of
\* the last committed registration for it.
C11_OneIdentifierPerRecord ==
    (last_op.op = "register" /\ last_op.ok) =>
        LET rows == MappingsOf(last_op.dataset_id, last_op.record_id)
        IN  \A i \in DOMAIN rows : rows[i].orcid = last_op.orcid

-----------------------------------------------------------------------------
(* Properties of the retry decorator, checked under SpecRetry *)

AllFailed == \A i \in DOMAIN r_http : r_http[i] = "fail"

Ended == r_pc \in {"returned", "raised"}

RECURSIVE Pow(_, _)
Pow(b, n) == IF n = 0 THEN 1 ELSE b * Pow(b, n - 1)

\* C18 as stated: the wrapper sleeps only between attempts.  A call that
\* succeeds on attempt k has invoked the operation k times and slept k-1
\* times, the i-th sleep lasting delay * backoff^(i-1), and returns the
\* operation's result; a call that raises has not slept after its final
\* failed attempt, so it too has slept once less than it has invoked.
C18_SleepsOnlyBetweenAttempts ==
    (r_tries >= 1 /\ Ended) =>
        /\ Len(r_slept) = Len(r_http) - 1
        /\ \A i \in DOMAIN r_slept : r_slept[i] = r_delay * Pow(r_backoff, i - 1)
        /\ r_pc = "returned" => r_value = Invoke(r_func, r_http[Len(r_http)])

\* C7: with tries=3 and an operation that fails every time, the operation
\* is invoked exactly 3 times and the wrapper then raises the error of the
\* last invocation; it returns no value and makes no 4th invocation.
C7_ExhaustionRaises ==
    (r_func = "operation" /\ r_tries = 3 /\ AllFailed) =>
        /\ Len(r_http) <= 3
        /\ r_pc # "returned"
        /\ r_value = "pending"
        /\ r_pc = "loop" => Len(r_http) < 3
        /\ r_pc = "raised" => (Len(r_http) = 3 /\ r_error = 3)

C7_Witness ==
    /\ r_func = "operation" /\ r_tries = 3 /\ AllFailed
    /\ r_pc = "raised"
    /\ Len(r_http) = 3

\* C8 as stated: a registry operation whose request fails on every attempt
\* is attempted 3 times and then raises, while a well-formed search without
\* results returns the empty list.
C8_AdapterErrorsPropagate ==
    /\ (CatchesAll(r_func) /\ r_tries = 3 /\ Ended /\ r_http # <<>> /\ AllFailed) =>
          (Len(r_http) = 3 /\ r_pc = "raised")
    /\ (r_func = "search_researchers" /\ r_tries = 3 /\ Ended
            /\ r_http # <<>> /\ r_http[Len(r_http)] = "empty") =>
          (r_pc = "returned" /\ r_value = "[]")

-----------------------------------------------------------------------------
(* Properties of APIRateLimiter, checked under SpecLimiter *)

\* C9: of two consecutive wait() calls made one after the other on one
\* limiter, the second returns at least one period after the first
\* returned; the call that comes too soon is held back until then.
C9_MinimumGap ==
    \A i \in 1..(Len(w_returns) - 1) :
        w_returns[i + 1].t - w_returns[i].t >= period

\* a second call that came too soon, slept and returned exactly one period
\* after the first
C9_Witness ==
    /\ Len(w_returns) >= 2
    /\ period >= 2
    /\ w_current[1] - w_returns[1].t < period
    /\ w_wake[1] > w_returns[1].t
    /\ w_returns[2].t - w_returns[1].t = period

\* C30: a run that finds a dataset linked when it starts registers nothing
\* for it, so a batch run only ever adds a mapping to a dataset that had
\* none; over repeated runs, interrupted or not, every row has at most one
\* mapping and a row of a linked dataset that has none keeps none.
C30_LinkedDatasetSkipped ==
    [][ /\ orcid_mappings' # orcid_mappings =>
              /\ ~b_snapshot[last_op'.dataset_id]
              /\ MappingsOf(last_op'.dataset_id, last_op'.record_id) = <<>>
        /\ \A d \in DatasetIds, k \in DOMAIN Table :
              Len(MappingsOf(d, RecordId(k))') <= 1 ]_vars

\* a later run passes over a dataset whose first row was matched before
\* the earlier run ended, its third row still without a mapping
C30_Witness ==
    /\ last_op.op = "dataset"
    /\ b_snapshot[last_op.dataset_id]
    /\ bpc = "datasets"
    /\ MappingsOf(last_op.dataset_id, RecordId(1)) # <<>>
    /\ MappingsOf(last_op.dataset_id, RecordId(3)) = <<>>
    /\ Len(orcid_mappings) = 1

\* C26 as stated: when two sessions call wait() on the same limiter at the
\* same time, in every interleaving of their steps any two calls return at
\* least one period apart.
C26_MinimumGapShared ==
    \A i \in DOMAIN w_returns : \A j \in DOMAIN w_returns :
        (i < j /\ w_returns[i].session # w_returns[j].session) =>
            w_returns[j].t - w_returns[i].t >= period

-----------------------------------------------------------------------------
(* Properties of search_researchers and get_researcher_info, checked under *)
(* SpecSearch *)

\* how often x occurs in the call sequence
Count(calls, x) == Cardinality({i \in DOMAIN calls : calls[i] = x})

\* the entries with an identifier among the first n of the response
Identified(n) ==
    {j \in 1..n : j <= Len(s_response.result)
                     /\ s_response.result[j].ident = "present"}

SearchAnswered ==
    s_op = "search" /\ s_pc = "returned" /\ s_response.status = "ok"

\* C15 as stated: the choice between stubs and enrichment follows the
\* number of hits the registry returned; more than 5 hits mean the search
\* request is the only external call, at most 5 hits mean one
\* get_researcher_info call per hit.  Read on responses whose hits all
\* carry an identifier.
C15_DecidesByResultSize ==
    (SearchAnswered /\ Identified(Len(s_response.result)) = DOMAIN s_response.result) =>
        IF Len(s_response.result) > 5
        THEN Count(s_calls, "search") = 1 /\ Count(s_calls, "detail") = 0
        ELSE Count(s_calls, "detail") = Len(s_response.result)

\* C15: the choice follows the max_results argument.  With max_results
\* above 5 the search request is the only external call, whatever the
\* number of hits; with max_results of at most 5 get_researcher_info has
\* been called once for every hit with an identifier that the loop has
\* handled, in registry order.
C15_DecidesByMaxResults ==
    (s_op = "search" /\ s_pc # "ready") =>
        /\ Count(s_calls, "search") = 1
        /\ IF s_max_results > 5
           THEN Count(s_calls, "detail") = 0
           ELSE Count(s_calls, "detail") = Cardinality(Identified(s_i - 1))
        /\ (s_pc = "returned" /\ s_i > Len(s_response.result) /\ s_max_results <= 5) =>
               Count(s_calls, "detail") =
                   Cardinality(Identified(Len(s_response.result)))

\* stubs for a small result set asked for with a large max_results
C15_Witness ==
    /\ SearchAnswered
    /\ s_max_results > 5
    /\ Len(s_response.result) \in 2..5
    /\ Identified(Len(s_response.result)) = DOMAIN s_response.result
    /\ Len(s_results) = Len(s_response.result)
    /\ \A i \in DOMAIN s_results : s_results[i].stub
    /\ s_calls = <<"wait", "search">>

\* the entries a search should answer with: those with an identifier whose
\* profile could be built
Expected ==
    {j \in DOMAIN s_response.result :
        /\ s_response.result[j].ident = "present"
        /\ (s_max_results > 5 \/ s_response.result[j].fetch = "ok")}

\* C20 as stated: an absent or null nested object costs neither an error
\* nor the other data.  A search returns every hit that has an identifier,
\* skipping those whose identifier object is absent or null; a detail
\* request that is answered returns a record whose fields are empty where
\* the optional containers are absent or null.
C20_NullTolerated ==
    /\ SearchAnswered =>
          {s_results[i].orcid : i \in DOMAIN s_results} = Expected
    /\ (s_op = "info" /\ s_pc = "returned" /\ s_detail.fetch = "ok") =>
          /\ s_info # <<>>
          /\ s_detail.body.person # "present" =>
                 (s_info[1].name = "" /\ s_info[1].keywords = <<>>)
          /\ s_detail.body.activities # "present" => s_info[1].institution = ""

-----------------------------------------------------------------------------
(* Properties of PubMedCollector.search_articles, checked under SpecPubMed *)

\* C14: a batch-fetch request is only issued after the id-search of the
\* same attempt returned at least one id, and a call whose id-search
\* yielded no id returns the empty list without a batch-fetch request.
C14_FetchOnlyAfterIds ==
    /\ \A i \in DOMAIN p_calls :
          p_calls[i].kind = "efetch" =>
              /\ i >= 3
              /\ p_calls[i - 2].kind = "esearch"
              /\ p_calls[i - 2].ids >= 1
              /\ p_calls[i - 1].kind = "wait"
    /\ \A i \in DOMAIN p_calls :
          (p_calls[i].kind = "esearch" /\ p_calls[i].ids = 0) =>
              /\ i = Len(p_calls)
              /\ p_pc = "returned"
              /\ p_out = "[]"

\* a second attempt finds no id after the first attempt's fetch failed
C14_Witness ==
    /\ p_pc = "returned"
    /\ p_out = "[]"
    /\ Len(p_calls) = 7
    /\ p_calls[2] = Ev("esearch", 2)
    /\ p_calls[4].kind = "efetch"
    /\ p_calls[5].kind = "sleep"
    /\ p_calls[7] = Ev("esearch", 0)

-----------------------------------------------------------------------------
(* Properties of search_google_scholar, checked under SpecScholar *)

\* C13: search_google_scholar returns a record on every outcome, and a
\* record tagged 'no_results' or 'error' has citations, h_index and
\* i10_index 0, an empty profile_url and no interests or coauthors.
C13_FailureGivesZeroStub ==
    /\ g_pc \in {"direct", "direct_profile", "name", "name_profile", "returned"}
    /\ g_pc = "returned" =>
          g_result.search_method \in {"direct_orcid", "name_search", "no_results", "error"}
    /\ g_result.search_method \in {"no_results", "error"} =>
          /\ g_pc = "returned"
          /\ g_result.citations = 0
          /\ g_result.h_index = 0
          /\ g_result.i10_index = 0
          /\ g_result.profile_url = ""
          /\ g_result.interests = <<>>
          /\ g_result.coauthors = <<>>

\* the statistics of a profile page that was found could not be read
C13_Witness ==
    /\ g_pc = "returned"
    /\ g_result.search_method = "error"
    /\ g_result.citations = 0
    /\ g_attempt = 1
    /\ Len(g_calls) = 4
    /\ g_calls[2] = Ev("sleep", 5)

\* the last answer was a profile page that `request` asked for
ProducedBy(request) ==
    /\ g_pages # <<>>
    /\ g_pages[Len(g_pages)].request = request
    /\ g_pages[Len(g_pages)].page \in {"full", "bare"}

\* C23: with an identifier supplied the direct search is the first request;
\* the search by name is only issued when no direct request produced a
\* profile, and never before a direct request; a returned record is tagged
\* 'direct_orcid' exactly when the direct strategy's profile page produced
\* it and 'name_search' exactly when the name search's profile page did.
C23_DirectFirstThenName ==
    /\ (g_orcid /\ g_pages # <<>>) => g_pages[1].request = "direct"
    /\ ~g_orcid => \A i \in DOMAIN g_pages :
                       g_pages[i].request \in {"name", "name_profile"}
    /\ \A i \in DOMAIN g_pages :
          g_pages[i].request \in {"name", "name_profile"} =>
              \A j \in DOMAIN g_pages :
                  g_pages[j].request \in {"direct", "direct_profile"} =>
                      /\ j < i
                      /\ ~(g_pages[j].request = "direct_profile"
                              /\ g_pages[j].page \in {"full", "bare"})
    /\ g_pc = "returned" =>
          /\ g_result.search_method = "direct_orcid" <=> ProducedBy("direct_profile")
          /\ g_result.search_method = "name_search" <=> ProducedBy("name_profile")

\* the direct strategy found a link but no profile, the name search did
C23_Witness ==
    /\ g_orcid
    /\ g_pc = "returned"
    /\ g_result.search_method = "name_search"
    /\ Len(g_pages) = 4
    /\ g_pages[2].request = "direct_profile"
    /\ g_pages[4].page = "full"

\* the answers to the search-page requests of the search by name
NameSearches == {i \in DOMAIN g_pages : g_pages[i].request = "name"}

Throttled(kinds, i) == i > 1 /\ kinds[i - 1] = "wait"

\* C19 as stated: every HTTP request to an upstream service is preceded,
\* within the same operation, by a wait() on that service's rate limiter;
\* this holds for the registry client, the PubMed collector and the app's
\* search_google_scholar alike.
C19_EveryRequestThrottled ==
    /\ \A i \in DOMAIN s_calls :
          s_calls[i] \in {"search", "detail"} => Throttled(s_calls, i)
    /\ \A i \in DOMAIN p_calls :
          p_calls[i].kind \in {"esearch", "efetch"} =>
              Throttled([j \in DOMAIN p_calls |-> p_calls[j].kind], i)
    /\ \A i \in DOMAIN g_calls :
          g_calls[i].kind = "get" =>
              Throttled([j \in DOMAIN g_calls |-> g_calls[j].kind], i)

-----------------------------------------------------------------------------
(* Properties of the lookups by identifier, checked under SpecLookup *)

\* four groups of four digits joined by hyphens, the last character a
\* digit or 'X'
WellFormed(o) ==
    /\ Len(o) = 19
    /\ \A i \in {5, 10, 15} : o[i] = "-"
    /\ \A i \in (1..18) \ {5, 10, 15} : o[i] \in Digits
    /\ o[19] \in Digits \cup {"X"}

\* C12 as stated: on every path that looks an identifier up
\* (fetch_and_update_orcid_profile, the add-by-ORCID form,
\* move_to_permanent_db's profile fetch, collect_external_data's
\* search_by_orcid) an identifier that is not well-formed is rejected
\* before any registry or bibliographic request is made for it.
C12_MalformedNeverLookedUp ==
    \A i \in DOMAIN l_log :
        l_log[i].outcome \in {"registry", "pubmed"} => WellFormed(l_log[i].orcid)

-----------------------------------------------------------------------------
(* Properties of the two _format_date implementations, checked under       *)
(* SpecDate *)

\* the component of the date is there and has a value
Has(key) == ~d_date.null /\ d_date[key] = "value"

\* the formatted date as the parts that are present call for
ExpectedDate ==
    IF ~Has("year") THEN None
    ELSE IF ~Has("month") THEN Some(<<"2020">>)
    ELSE IF ~Has("day") THEN Some(<<"2020", "-", "05">>)
    ELSE Some(<<"2020", "-", "05", "-", "17">>)

\* C21: for every combination of present and absent year, month and day
\* both implementations return 'Y', 'Y-M' or 'Y-M-D' by the parts present,
\* a day only together with a month, and None, never the empty string,
\* for a null or empty date or one without a year; and they agree.
C21_PartialDates ==
    /\ "client" \in d_done => (d_client = ExpectedDate /\ d_client # Some(<<>>))
    /\ "app" \in d_done => (d_app = ExpectedDate /\ d_app # Some(<<>>))
    /\ d_done = {"client", "app"} => d_client = d_app

\* year and day without a month: the day is left out by both
C21_Witness ==
    /\ d_done = {"client", "app"}
    /\ Has("year") /\ Has("day")
    /\ d_date.month = "null"
    /\ d_client = Some(<<"2020">>)
    /\ d_app = Some(<<"2020">>)

-----------------------------------------------------------------------------
(* Properties of the author list, checked under SpecAuthors *)

\* the authors that have a name, given name then family name
RECURSIVE GivenThenFamily(_)
GivenThenFamily(xml) ==
    IF xml = <<>> THEN <<>>
    ELSE LET given  == xml[1].ForeName
             family == xml[1].LastName
             name   == IF given # <<>> /\ family # <<>>
                       THEN <<given \o <<" ">> \o family>>
                       ELSE IF given \o family # <<>> THEN <<given \o family>>
                       ELSE <<>>
         IN  name \o GivenThenFamily(Tail(xml))

\* C22: each author is the given name, one space, the family name, and
\* authors_str is the authors joined by ', ' in their order.
C22_GivenThenFamilyJoined ==
    /\ a_pc # "start" => a_authors = GivenThenFamily(a_xml)
    /\ a_pc = "framed" => a_authors_str = Join(", ", GivenThenFamily(a_xml))

-----------------------------------------------------------------------------
(* Properties of GoogleScholarCollector.search_articles, checked under     *)
(* SpecCollector *)

\* C25: within an attempt a page is requested only while fewer than
\* max_results articles are collected and the page before it held results;
\* no page beyond ceil(max_results / 10) is requested and no more than
\* max_results articles are returned.
C25_StopsWhenFullOrEmpty ==
    /\ \A i \in DOMAIN c_requests :
          /\ c_requests[i].before < c_max_results
          /\ c_requests[i].page * PageSize < c_max_results
          /\ c_requests[i].page > 0 =>
                /\ c_requests[i - 1].attempt = c_requests[i].attempt
                /\ c_requests[i - 1].yield > 0
    /\ c_out # <<>> => Len(c_out[1]) <= c_max_results

-----------------------------------------------------------------------------
(* Properties of move_to_permanent_db, checked under SpecMove *)

\* the rows of the permanent table with this ORCID
WithOrcid(orcid) == {i \in DOMAIN v_permanent : v_permanent[i].orcid = orcid}

\* C27: after any interleaving of moves no two rows of forskare_permanent
\* have the same non-empty ORCID.
C27_OrcidUniqueInPermanent ==
    \A i \in DOMAIN v_permanent :
        v_permanent[i].orcid # <<>> =>
            Cardinality(WithOrcid(v_permanent[i].orcid)) = 1

\* the call of the session ended in one of the three rejections
Rejected(ret) == ret \in {"not_found", "duplicate_orcid", "duplicate_name"}

\* C28: a staging row goes away only in the DELETE step of a call whose
\* insert succeeded, with the researcher then in the permanent table; the
\* permanent table only grows; and the step in which a call is rejected
\* changes neither table.
C28_NeverLosesResearcher ==
    [][ /\ \A id \in RowIds :
              v_staging'[id] # v_staging[id] =>
                  /\ v_staging'[id] = <<>>
                  /\ \E i \in DOMAIN v_permanent : v_permanent[i] = v_staging[id][1]
                  /\ v_permanent' = v_permanent
                  /\ \E s \in Sessions :
                        v_pc[s] = "delete" /\ v_id[s] = id /\ v_ret'[s] = "moved"
        /\ Len(v_permanent') >= Len(v_permanent)
        /\ SubSeq(v_permanent', 1, Len(v_permanent)) = v_permanent
        /\ \A s \in Sessions :
              Rejected(v_ret'[s]) /\ v_ret[s] = "none" =>
                  v_staging' = v_staging /\ v_permanent' = v_permanent ]_vars

\* one session has moved a researcher with an ORCID and the other's move
\* of a row with that ORCID was rejected
C28_Witness ==
    /\ v_ret[1] = "moved"
    /\ v_ret[2] = "duplicate_orcid"
    /\ v_staging[v_id[1]] = <<>>
    /\ v_staging[v_id[2]] # <<>>
    /\ Len(v_permanent) = 1

-----------------------------------------------------------------------------
(* Properties of approve_and_move_to_permanent, checked under SpecApprove *)

====
